---------------------------- MODULE Spec2Model ----------------------------
(***************************************************************************)
(* Verification model of the termin-graphics resource core: the generic    *)
(* handle/pool allocator (tc_pool.c), the resource registries built on it  *)
(* (mesh, shader, texture, material), and the GPU context / share-group    *)
(* synchronisation protocol (tc_gpu_context.c, tgfx_resource_gpu.c).       *)
(*                                                                         *)
(* Each subsystem has its own specification over the shared variables:     *)
(*   SpecPool  the pool allocator alone                                    *)
(*   SpecRef   the four registries: create / add_ref / release / destroy   *)
(*   SpecVer   the data mutators of the four resource kinds                *)
(*   SpecGpu   GPU contexts, share groups and the upload protocol          *)
(***************************************************************************)
EXTENDS Integers, Sequences, FiniteSets, TLC

VARIABLES
    pool,      \* SpecPool: one tc_pool
    issued,    \* SpecPool: handles returned by tc_pool_alloc
    freed,     \* SpecPool: handles for which tc_pool_free_slot returned true
    plast,     \* SpecPool: the last pool operation and its result
    mesh,      \* the mesh registry
    texture,   \* the texture registry
    shader,    \* the shader registry
    material,  \* the material registry
    focus,     \* the registry the behaviour works on
    quota,     \* how many resources of a registry the clients keep alive at most
    rlast,     \* the last registry operation and its result
    gpu,       \* GPU side: vtable, share groups, contexts, current context, GL objects
    uploaded,  \* per (context, handle): the last successful upload and whether it still stands
    glast      \* the last GPU operation and its result

poolVars == <<pool, issued, freed, plast>>
regVars == <<mesh, texture, shader, material, focus, quota, rlast>>
gpuVars == <<gpu, uploaded, glast>>
vars == <<poolVars, regVars, gpuVars>>

(***************************************************************************)
(* Bounds of the model                                                     *)
(***************************************************************************)
InitCapacity == 2       \* initial_capacity passed to tc_pool_init
MaxCapacity == 4        \* the pool is not grown beyond this capacity
MaxGen == 3             \* a slot whose generation reached this is not freed again
RegCapacity == 1        \* initial capacity of a registry's pool (64 in the code)
RegMaxGen == 2          \* a registry slot whose generation reached this is not freed again
MaxAuto == 1            \* auto-generated uuids per registry
MaxRef == 2             \* add_ref is not called on a ref_count that reached this
RefQuota == 2           \* resources alive per registry in SpecRef
VerQuota == 1           \* resources alive per registry in SpecVer
Uuids == {"", "a"}      \* uuid arguments; "" stands for NULL and for the empty string
Names == {"", "n"}      \* name arguments
MaxVersion == 3         \* a mutator is not called on a version that reached this
MaxPhases == 2          \* phases per material
Colors == {<<1, 0, 0, 1>>}  \* (r, g, b, a) arguments

(***************************************************************************)
(* tc_handle.h                                                             *)
(***************************************************************************)
\* (tc_handle){UINT32_MAX, 0}: UINT32_MAX is written -1, its int32 bit pattern
TC_HANDLE_INVALID == [index |-> -1, generation |-> 0]

tc_handle_is_invalid(h) == h.index = TC_HANDLE_INVALID.index

TC_SLOT_FREE == 0
TC_SLOT_OCCUPIED == 1

(***************************************************************************)
(* tc_pool.c                                                               *)
(* A pool is [zero, data, capacity, generations, states, free_list, count]: *)
(* zero is the all-zero item (what item_size bytes of 0 read as), data the *)
(* item array, free_list the first free_count entries of the C array with  *)
(* the top of the stack last.                                              *)
(***************************************************************************)
GrowFromEmpty == 16

\* the sequence <<a, a+1, ..., b-1>>
Iota(a, b) == [i \in 1..(b - a) |-> a + i - 1]

tc_pool_init(zero, initial_capacity) ==
    [zero        |-> zero,
     data        |-> [i \in 0..(initial_capacity - 1) |-> zero],
     capacity    |-> initial_capacity,
     generations |-> [i \in 0..(initial_capacity - 1) |-> 1],
     states      |-> [i \in 0..(initial_capacity - 1) |-> TC_SLOT_FREE],
     free_list   |-> Iota(0, initial_capacity),
     count       |-> 0]

\* pool_grow handing out a fresh zeroed array in place of the old items
pool_grow_LoseItems(p) ==
    LET new_capacity == IF p.capacity = 0 THEN GrowFromEmpty ELSE p.capacity * 2
    IN  [zero        |-> p.zero,
         data        |-> [i \in 0..(new_capacity - 1) |-> p.zero],
         capacity    |-> new_capacity,
         generations |-> [i \in 0..(new_capacity - 1) |->
                            IF i < p.capacity THEN p.generations[i] ELSE 1],
         states      |-> [i \in 0..(new_capacity - 1) |->
                            IF i < p.capacity THEN p.states[i] ELSE TC_SLOT_FREE],
         free_list   |-> p.free_list \o Iota(p.capacity, new_capacity),
         count       |-> p.count]

pool_grow(p) ==
    LET new_capacity == IF p.capacity = 0 THEN GrowFromEmpty ELSE p.capacity * 2
    IN  [zero        |-> p.zero,
         data        |-> [i \in 0..(new_capacity - 1) |->
                            IF i < p.capacity THEN p.data[i] ELSE p.zero],
         capacity    |-> new_capacity,
         generations |-> [i \in 0..(new_capacity - 1) |->
                            IF i < p.capacity THEN p.generations[i] ELSE 1],
         states      |-> [i \in 0..(new_capacity - 1) |->
                            IF i < p.capacity THEN p.states[i] ELSE TC_SLOT_FREE],
         free_list   |-> p.free_list \o Iota(p.capacity, new_capacity),
         count       |-> p.count]

\* whether tc_pool_alloc on p stays within the model's capacity bound
CanAlloc(p) ==
    \/ Len(p.free_list) > 0
    \/ (IF p.capacity = 0 THEN GrowFromEmpty ELSE p.capacity * 2) <= MaxCapacity

\* tc_pool_alloc: the pool afterwards and the handle returned
tc_pool_alloc(p) ==
    LET g     == IF Len(p.free_list) = 0 THEN pool_grow(p) ELSE p
        index == g.free_list[Len(g.free_list)]
    IN  [pool |-> [g EXCEPT !.free_list = SubSeq(g.free_list, 1, Len(g.free_list) - 1),
                            !.states[index] = TC_SLOT_OCCUPIED,
                            !.count = g.count + 1,
                            !.data[index] = g.zero],
         h    |-> [index |-> index, generation |-> g.generations[index]]]

tc_pool_is_valid(p, h) ==
    /\ h.index \in 0..(p.capacity - 1)
    /\ p.states[h.index] = TC_SLOT_OCCUPIED
    /\ p.generations[h.index] = h.generation

\* tc_pool_free_slot with the generation bump forgotten
tc_pool_free_slot_NoBump(p, h) ==
    IF ~(h.index \in 0..(p.capacity - 1)) THEN [pool |-> p, ok |-> FALSE]
    ELSE IF p.states[h.index] # TC_SLOT_OCCUPIED THEN [pool |-> p, ok |-> FALSE]
    ELSE IF p.generations[h.index] # h.generation THEN [pool |-> p, ok |-> FALSE]
    ELSE [pool |-> [p EXCEPT !.states[h.index] = TC_SLOT_FREE,
                             !.count = p.count - 1,
                             !.free_list = Append(p.free_list, h.index)],
          ok   |-> TRUE]

\* tc_pool_free_slot without the test of the handle's generation
tc_pool_free_slot_NoGenerationTest(p, h) ==
    IF ~(h.index \in 0..(p.capacity - 1)) THEN [pool |-> p, ok |-> FALSE]
    ELSE IF p.states[h.index] # TC_SLOT_OCCUPIED THEN [pool |-> p, ok |-> FALSE]
    ELSE [pool |-> [p EXCEPT !.states[h.index] = TC_SLOT_FREE,
                             !.generations[h.index] = p.generations[h.index] + 1,
                             !.count = p.count - 1,
                             !.free_list = Append(p.free_list, h.index)],
          ok   |-> TRUE]

\* tc_pool_free_slot: the pool afterwards and the bool returned
tc_pool_free_slot(p, h) ==
    IF ~(h.index \in 0..(p.capacity - 1)) THEN [pool |-> p, ok |-> FALSE]
    ELSE IF p.states[h.index] # TC_SLOT_OCCUPIED THEN [pool |-> p, ok |-> FALSE]
    ELSE IF p.generations[h.index] # h.generation THEN [pool |-> p, ok |-> FALSE]
    ELSE [pool |-> [p EXCEPT !.states[h.index] = TC_SLOT_FREE,
                             !.generations[h.index] = p.generations[h.index] + 1,
                             !.count = p.count - 1,
                             !.free_list = Append(p.free_list, h.index)],
          ok   |-> TRUE]

\* tc_pool_get: the index of the item, or NULL
NULL == -1

tc_pool_get(p, h) == IF tc_pool_is_valid(p, h) THEN h.index ELSE NULL

\* tc_pool_clear with the free list left as it was
tc_pool_clear_KeepFreeList(p) ==
    [p EXCEPT !.generations = [i \in 0..(p.capacity - 1) |->
                                 IF p.states[i] = TC_SLOT_OCCUPIED
                                 THEN p.generations[i] + 1 ELSE p.generations[i]],
              !.states = [i \in 0..(p.capacity - 1) |-> TC_SLOT_FREE],
              !.count = 0]

tc_pool_clear(p) ==
    [p EXCEPT !.generations = [i \in 0..(p.capacity - 1) |->
                                 IF p.states[i] = TC_SLOT_OCCUPIED
                                 THEN p.generations[i] + 1 ELSE p.generations[i]],
              !.states = [i \in 0..(p.capacity - 1) |-> TC_SLOT_FREE],
              !.free_list = Iota(0, p.capacity),
              !.count = 0]

(***************************************************************************)
(* tc_registry_utils.h and tc_resource_map.c                               *)
(* A resource map is modelled by what add / get / remove return: a         *)
(* function from the keys present to their values (void*, 0 is NULL).      *)
(***************************************************************************)
tc_pack_index(index) == index + 1
tc_unpack_index(ptr) == ptr - 1
tc_has_index(ptr) == ptr # 0

tc_resource_map_new == [k \in {} |-> 0]

tc_resource_map_get(map, uuid) == IF uuid \in DOMAIN map THEN map[uuid] ELSE 0

tc_resource_map_contains(map, uuid) == tc_resource_map_get(map, uuid) # 0

tc_resource_map_add(map, uuid, resource) ==
    IF tc_resource_map_contains(map, uuid) THEN [map |-> map, ok |-> FALSE]
    ELSE [map |-> [k \in DOMAIN map \cup {uuid} |->
                     IF k = uuid THEN resource ELSE map[k]],
          ok  |-> TRUE]

tc_resource_map_remove(map, uuid) == [k \in DOMAIN map \ {uuid} |-> map[k]]

\* snprintf("%s-%016llx", prefix, counter) for the counters of the model
HexDigit == <<"1", "2", "3", "4", "5", "6", "7", "8", "9", "a", "b", "c", "d", "e", "f">>

tc_generate_prefixed_uuid(prefix, counter) ==
    prefix \o "-000000000000000" \o HexDigit[counter]

(***************************************************************************)
(* Registries. A registry is the static state of one registry file:        *)
(* [initialized, pool, uuid_to_index, next_uuid] (the shader registry      *)
(* adds hash_to_index). A tc_mesh* and the like is the index of the item   *)
(* in pool.data, NULL when null. The empty string stands for a NULL or     *)
(* empty C string. Each operation returns the registry afterwards with its *)
(* return value and the level of the message it logged ("none" if none).   *)
(***************************************************************************)
Uninitialized(zero) ==
    [initialized   |-> FALSE,
     pool          |-> tc_pool_init(zero, 0),
     uuid_to_index |-> tc_resource_map_new,
     next_uuid     |-> 1]

\* handles of the occupied slots of a registry's pool
LiveHandles(reg) ==
    {[index |-> i, generation |-> reg.pool.generations[i]] :
        i \in {j \in 0..(reg.pool.capacity - 1) : reg.pool.states[j] = TC_SLOT_OCCUPIED}}

\* tc_X_find, the same code in the four registries
registry_find(reg, uuid) ==
    IF ~reg.initialized THEN TC_HANDLE_INVALID
    ELSE LET ptr == tc_resource_map_get(reg.uuid_to_index, uuid)
             index == tc_unpack_index(ptr)
         IN  IF ~tc_has_index(ptr) THEN TC_HANDLE_INVALID
             ELSE IF index >= reg.pool.capacity THEN TC_HANDLE_INVALID
             ELSE IF reg.pool.states[index] # TC_SLOT_OCCUPIED THEN TC_HANDLE_INVALID
             ELSE [index |-> index, generation |-> reg.pool.generations[index]]

(***************************************************************************)
(* Mesh registry: tc_mesh_registry.c, tc_mesh.c                            *)
(***************************************************************************)
ZeroMesh ==
    [uuid |-> "", name |-> "", version |-> 0, ref_count |-> 0, pool_index |-> 0,
     is_loaded |-> 0, load_callback |-> "", vertices |-> "", vertex_count |-> 0,
     layout |-> [stride |-> 0], indices |-> "", index_count |-> 0]

tc_mesh_init(reg) ==
    IF reg.initialized THEN reg
    ELSE [reg EXCEPT !.initialized = TRUE,
                     !.pool = tc_pool_init(ZeroMesh, RegCapacity),
                     !.uuid_to_index = tc_resource_map_new,
                     !.next_uuid = 1]

tc_mesh_contains(reg, uuid) ==
    reg.initialized /\ tc_resource_map_contains(reg.uuid_to_index, uuid)

tc_mesh_find(reg, uuid) == registry_find(reg, uuid)

tc_mesh_get(reg, h) == IF ~reg.initialized THEN NULL ELSE tc_pool_get(reg.pool, h)

tc_mesh_is_valid(reg, h) == reg.initialized /\ tc_pool_is_valid(reg.pool, h)

tc_mesh_create(reg0, uuid) ==
    LET reg == tc_mesh_init(reg0)
    IN  IF uuid # "" /\ tc_mesh_contains(reg, uuid)
        THEN [reg |-> reg, h |-> TC_HANDLE_INVALID, log |-> "warn"]
        ELSE
        LET final_uuid == IF uuid # "" THEN uuid
                          ELSE tc_generate_prefixed_uuid("mesh", reg.next_uuid)
            r1   == IF uuid # "" THEN reg ELSE [reg EXCEPT !.next_uuid = @ + 1]
            a    == tc_pool_alloc(r1.pool)
            item == [ZeroMesh EXCEPT !.uuid = final_uuid, !.version = 1,
                                     !.ref_count = 0, !.pool_index = a.h.index,
                                     !.is_loaded = 1]
            p2   == [a.pool EXCEPT !.data[a.h.index] = item]
            add  == tc_resource_map_add(r1.uuid_to_index, item.uuid,
                                        tc_pack_index(a.h.index))
        IN  IF add.ok
            THEN [reg |-> [r1 EXCEPT !.pool = p2, !.uuid_to_index = add.map],
                  h |-> a.h, log |-> "none"]
            ELSE [reg |-> [r1 EXCEPT !.pool = tc_pool_free_slot(p2, a.h).pool],
                  h |-> TC_HANDLE_INVALID, log |-> "error"]

tc_mesh_destroy(reg, h) ==
    LET mesh_ == tc_mesh_get(reg, h)
    IN  IF ~reg.initialized \/ mesh_ = NULL THEN [reg |-> reg, ok |-> FALSE]
        ELSE LET map == tc_resource_map_remove(reg.uuid_to_index,
                                               reg.pool.data[mesh_].uuid)
                 \* mesh_free_data
                 p1  == [reg.pool EXCEPT !.data[mesh_].vertices = "",
                                         !.data[mesh_].indices = ""]
                 f   == tc_pool_free_slot(p1, h)
             IN  [reg |-> [reg EXCEPT !.uuid_to_index = map, !.pool = f.pool],
                  ok  |-> f.ok]

tc_mesh_remove(reg, uuid) ==
    LET h == tc_mesh_find(reg, uuid)
    IN  IF tc_handle_is_invalid(h) THEN [reg |-> reg, ok |-> FALSE]
        ELSE tc_mesh_destroy(reg, h)

tc_mesh_add_ref(reg, mesh_) ==
    IF mesh_ = NULL THEN reg
    ELSE [reg EXCEPT !.pool.data[mesh_].ref_count = @ + 1]

tc_mesh_release(reg, mesh_) ==
    IF mesh_ = NULL THEN [reg |-> reg, ret |-> FALSE, log |-> "none"]
    ELSE IF reg.pool.data[mesh_].ref_count = 0
    THEN [reg |-> reg, ret |-> FALSE, log |-> "warn"]
    ELSE LET r1 == [reg EXCEPT !.pool.data[mesh_].ref_count = @ - 1]
         IN  IF r1.pool.data[mesh_].ref_count = 0
             THEN [reg |-> tc_mesh_remove(r1, r1.pool.data[mesh_].uuid).reg,
                   ret |-> TRUE, log |-> "none"]
             ELSE [reg |-> r1, ret |-> FALSE, log |-> "none"]

(***************************************************************************)
(* Texture registry: tc_texture_registry.c                                 *)
(***************************************************************************)
ZeroTexture ==
    [uuid |-> "", name |-> "", version |-> 0, ref_count |-> 0, pool_index |-> 0,
     data |-> "", width |-> 0, height |-> 0, channels |-> 0, format |-> 0,
     flip_x |-> 0, flip_y |-> 0, transpose |-> 0, mipmap |-> 0, clamp |-> 0,
     source_path |-> ""]

tc_texture_init(reg) ==
    IF reg.initialized THEN reg
    ELSE [reg EXCEPT !.initialized = TRUE,
                     !.pool = tc_pool_init(ZeroTexture, RegCapacity),
                     !.uuid_to_index = tc_resource_map_new,
                     !.next_uuid = 1]

tc_texture_contains(reg, uuid) ==
    reg.initialized /\ tc_resource_map_contains(reg.uuid_to_index, uuid)

tc_texture_find(reg, uuid) == registry_find(reg, uuid)

tc_texture_get(reg, h) == IF ~reg.initialized THEN NULL ELSE tc_pool_get(reg.pool, h)

tc_texture_is_valid(reg, h) == reg.initialized /\ tc_pool_is_valid(reg.pool, h)

tc_texture_create(reg0, uuid) ==
    LET reg == tc_texture_init(reg0)
    IN  IF uuid # "" /\ tc_texture_contains(reg, uuid)
        THEN [reg |-> reg, h |-> TC_HANDLE_INVALID, log |-> "warn"]
        ELSE
        LET final_uuid == IF uuid # "" THEN uuid
                          ELSE tc_generate_prefixed_uuid("tex", reg.next_uuid)
            r1   == IF uuid # "" THEN reg ELSE [reg EXCEPT !.next_uuid = @ + 1]
            a    == tc_pool_alloc(r1.pool)
            item == [ZeroTexture EXCEPT !.uuid = final_uuid, !.version = 1,
                                        !.ref_count = 0, !.pool_index = a.h.index,
                                        !.flip_y = 1]
            p2   == [a.pool EXCEPT !.data[a.h.index] = item]
            add  == tc_resource_map_add(r1.uuid_to_index, item.uuid,
                                        tc_pack_index(a.h.index))
        IN  IF add.ok
            THEN [reg |-> [r1 EXCEPT !.pool = p2, !.uuid_to_index = add.map],
                  h |-> a.h, log |-> "none"]
            ELSE [reg |-> [r1 EXCEPT !.pool = tc_pool_free_slot(p2, a.h).pool],
                  h |-> TC_HANDLE_INVALID, log |-> "error"]

tc_texture_destroy(reg, h) ==
    LET tex == tc_texture_get(reg, h)
    IN  IF ~reg.initialized \/ tex = NULL THEN [reg |-> reg, ok |-> FALSE]
        ELSE LET map == tc_resource_map_remove(reg.uuid_to_index,
                                               reg.pool.data[tex].uuid)
                 \* texture_free_data
                 p1  == [reg.pool EXCEPT !.data[tex].data = ""]
                 f   == tc_pool_free_slot(p1, h)
             IN  [reg |-> [reg EXCEPT !.uuid_to_index = map, !.pool = f.pool],
                  ok  |-> f.ok]

tc_texture_add_ref(reg, tex) ==
    IF tex = NULL THEN reg
    ELSE [reg EXCEPT !.pool.data[tex].ref_count = @ + 1]

tc_texture_release(reg, tex) ==
    IF tex = NULL THEN [reg |-> reg, ret |-> FALSE, log |-> "none"]
    ELSE LET r1 == IF reg.pool.data[tex].ref_count > 0
                   THEN [reg EXCEPT !.pool.data[tex].ref_count = @ - 1]
                   ELSE reg
         IN  [reg |-> r1, ret |-> r1.pool.data[tex].ref_count = 0, log |-> "none"]

(***************************************************************************)
(* Shader registry: tc_shader_registry.c                                   *)
(***************************************************************************)
ZeroShader ==
    [uuid |-> "", name |-> "", version |-> 0, ref_count |-> 0, pool_index |-> 0,
     vertex_source |-> "", fragment_source |-> "", geometry_source |-> "",
     source_hash |-> "", source_path |-> "", is_variant |-> 0, variant_op |-> 0,
     original_handle |-> [index |-> 0, generation |-> 0], original_version |-> 0]

\* The FNV-1a hash of vertex "::" fragment "::" geometry, modelled by the
\* string that is hashed: equal inputs of the hash give equal hashes.
tc_shader_compute_hash(vertex_source, fragment_source, geometry_source) ==
    vertex_source \o "::" \o fragment_source \o "::" \o geometry_source

tc_shader_init(reg) ==
    IF reg.initialized THEN reg
    ELSE [reg EXCEPT !.initialized = TRUE,
                     !.pool = tc_pool_init(ZeroShader, RegCapacity),
                     !.uuid_to_index = tc_resource_map_new,
                     !.hash_to_index = tc_resource_map_new,
                     !.next_uuid = 1]

tc_shader_contains(reg, uuid) ==
    reg.initialized /\ tc_resource_map_contains(reg.uuid_to_index, uuid)

tc_shader_find(reg, uuid) == registry_find(reg, uuid)

tc_shader_get(reg, h) == IF ~reg.initialized THEN NULL ELSE tc_pool_get(reg.pool, h)

tc_shader_is_valid(reg, h) == reg.initialized /\ tc_pool_is_valid(reg.pool, h)

tc_shader_create(reg0, uuid) ==
    LET reg == tc_shader_init(reg0)
    IN  IF uuid # "" /\ tc_shader_contains(reg, uuid)
        THEN [reg |-> reg, h |-> TC_HANDLE_INVALID, log |-> "warn"]
        ELSE
        LET final_uuid == IF uuid # "" THEN uuid
                          ELSE tc_generate_prefixed_uuid("shader", reg.next_uuid)
            r1   == IF uuid # "" THEN reg ELSE [reg EXCEPT !.next_uuid = @ + 1]
            a    == tc_pool_alloc(r1.pool)
            item == [ZeroShader EXCEPT !.uuid = final_uuid, !.version = 1,
                                       !.ref_count = 0, !.pool_index = a.h.index,
                                       !.original_handle = TC_HANDLE_INVALID]
            p2   == [a.pool EXCEPT !.data[a.h.index] = item]
            add  == tc_resource_map_add(r1.uuid_to_index, item.uuid,
                                        tc_pack_index(a.h.index))
        IN  IF add.ok
            THEN [reg |-> [r1 EXCEPT !.pool = p2, !.uuid_to_index = add.map],
                  h |-> a.h, log |-> "none"]
            ELSE [reg |-> [r1 EXCEPT !.pool = tc_pool_free_slot(p2, a.h).pool],
                  h |-> TC_HANDLE_INVALID, log |-> "error"]

\* tc_shader_destroy without the removal from the uuid map
tc_shader_destroy_KeepUuid(reg, h) ==
    LET shader_ == tc_shader_get(reg, h)
    IN  IF ~reg.initialized \/ shader_ = NULL THEN [reg |-> reg, ok |-> FALSE]
        ELSE LET item == reg.pool.data[shader_]
                 map  == reg.uuid_to_index
                 hmap == IF item.source_hash # ""
                         THEN tc_resource_map_remove(reg.hash_to_index, item.source_hash)
                         ELSE reg.hash_to_index
                 \* shader_free_data
                 p1   == [reg.pool EXCEPT !.data[shader_].vertex_source = "",
                                          !.data[shader_].fragment_source = "",
                                          !.data[shader_].geometry_source = ""]
                 f    == tc_pool_free_slot(p1, h)
             IN  [reg |-> [reg EXCEPT !.uuid_to_index = map, !.hash_to_index = hmap,
                                      !.pool = f.pool],
                  ok  |-> f.ok]

tc_shader_destroy(reg, h) ==
    LET shader_ == tc_shader_get(reg, h)
    IN  IF ~reg.initialized \/ shader_ = NULL THEN [reg |-> reg, ok |-> FALSE]
        ELSE LET item == reg.pool.data[shader_]
                 map  == tc_resource_map_remove(reg.uuid_to_index, item.uuid)
                 hmap == IF item.source_hash # ""
                         THEN tc_resource_map_remove(reg.hash_to_index, item.source_hash)
                         ELSE reg.hash_to_index
                 \* shader_free_data
                 p1   == [reg.pool EXCEPT !.data[shader_].vertex_source = "",
                                          !.data[shader_].fragment_source = "",
                                          !.data[shader_].geometry_source = ""]
                 f    == tc_pool_free_slot(p1, h)
             IN  [reg |-> [reg EXCEPT !.uuid_to_index = map, !.hash_to_index = hmap,
                                      !.pool = f.pool],
                  ok  |-> f.ok]

tc_shader_add_ref(reg, shader_) ==
    IF shader_ = NULL THEN reg
    ELSE [reg EXCEPT !.pool.data[shader_].ref_count = @ + 1]

tc_shader_release(reg, shader_) ==
    IF shader_ = NULL THEN [reg |-> reg, ret |-> FALSE, log |-> "warn"]
    ELSE IF reg.pool.data[shader_].ref_count = 0
    THEN [reg |-> reg, ret |-> FALSE, log |-> "warn"]
    ELSE LET r1 == [reg EXCEPT !.pool.data[shader_].ref_count = @ - 1]
         IN  IF r1.pool.data[shader_].ref_count = 0
             THEN LET h == tc_shader_find(r1, r1.pool.data[shader_].uuid)
                  IN  [reg |-> IF ~tc_handle_is_invalid(h)
                               THEN tc_shader_destroy(r1, h).reg ELSE r1,
                       ret |-> TRUE, log |-> "none"]
             ELSE [reg |-> r1, ret |-> FALSE, log |-> "none"]

(***************************************************************************)
(* Data mutators of meshes, textures and shaders. A data blob is a string, *)
(* "" when the pointer is NULL; a const tc_vertex_layout* is <<>> when     *)
(* NULL and <<layout>> otherwise; oom says that malloc fails.              *)
(***************************************************************************)
\* the copy the setters make of data_size bytes at data
CopyOf(data, data_size) ==
    IF data_size = 0 THEN "" ELSE IF data # "" THEN data ELSE "zeros"

SizeOfIndex == 4

tc_mesh_set_vertices(reg, mesh_, data, vertex_count, layout, oom) ==
    IF mesh_ = NULL \/ layout = <<>> THEN [reg |-> reg, ret |-> FALSE]
    ELSE LET data_size == vertex_count * layout[1].stride
         IN  IF data_size > 0 /\ oom THEN [reg |-> reg, ret |-> FALSE]
             ELSE [reg |-> [reg EXCEPT
                              !.pool.data[mesh_].vertices = CopyOf(data, data_size),
                              !.pool.data[mesh_].vertex_count = vertex_count,
                              !.pool.data[mesh_].layout = layout[1],
                              !.pool.data[mesh_].version = @ + 1],
                   ret |-> TRUE]

tc_mesh_set_indices(reg, mesh_, data, index_count, oom) ==
    IF mesh_ = NULL THEN [reg |-> reg, ret |-> FALSE]
    ELSE LET data_size == index_count * SizeOfIndex
         IN  IF data_size > 0 /\ oom THEN [reg |-> reg, ret |-> FALSE]
             ELSE [reg |-> [reg EXCEPT
                              !.pool.data[mesh_].indices = CopyOf(data, data_size),
                              !.pool.data[mesh_].index_count = index_count,
                              !.pool.data[mesh_].version = @ + 1],
                   ret |-> TRUE]

tc_mesh_set_data_KeepIndices(reg, mesh_, vertices, vertex_count, layout, indices, index_count, name, oomv, oomi) ==
    IF mesh_ = NULL \/ layout = <<>> THEN [reg |-> reg, ret |-> FALSE]
    ELSE LET vertex_size == vertex_count * layout[1].stride
         IN  IF vertex_size > 0 /\ oomv THEN [reg |-> reg, ret |-> FALSE]
             ELSE [reg |-> [reg EXCEPT
                              !.pool.data[mesh_].vertices = CopyOf(vertices, vertex_size),
                              !.pool.data[mesh_].vertex_count = vertex_count,
                              !.pool.data[mesh_].layout = layout[1],
                              !.pool.data[mesh_].index_count = index_count,
                              !.pool.data[mesh_].version = @ + 1,
                              !.pool.data[mesh_].is_loaded = 1],
                   ret |-> TRUE]

\* oomv, oomi: the malloc of the vertex copy, of the index copy fails
tc_mesh_set_data(reg, mesh_, vertices, vertex_count, layout, indices, index_count, name, oomv, oomi) ==
    IF mesh_ = NULL \/ layout = <<>> THEN [reg |-> reg, ret |-> FALSE]
    ELSE LET r1 == IF name # "" THEN [reg EXCEPT !.pool.data[mesh_].name = name]
                   ELSE reg
             vertex_size == vertex_count * layout[1].stride
             index_size  == index_count * SizeOfIndex
         IN  IF vertex_size > 0 /\ oomv THEN [reg |-> r1, ret |-> FALSE]
             ELSE IF index_size > 0 /\ oomi THEN [reg |-> r1, ret |-> FALSE]
             ELSE [reg |-> [r1 EXCEPT
                              !.pool.data[mesh_].vertices = CopyOf(vertices, vertex_size),
                              !.pool.data[mesh_].vertex_count = vertex_count,
                              !.pool.data[mesh_].layout = layout[1],
                              !.pool.data[mesh_].indices = CopyOf(indices, index_size),
                              !.pool.data[mesh_].index_count = index_count,
                              !.pool.data[mesh_].version = @ + 1,
                              !.pool.data[mesh_].is_loaded = 1],
                   ret |-> TRUE]

TC_TEXTURE_RGBA8 == 0

tc_texture_set_data(reg, tex, data, width, height, channels, name, source_path, oom) ==
    IF tex = NULL THEN [reg |-> reg, ret |-> FALSE]
    ELSE LET data_size == width * height * channels
         IN  IF data_size > 0 /\ oom THEN [reg |-> reg, ret |-> FALSE]
             ELSE [reg |-> [reg EXCEPT
                              !.pool.data[tex].data = CopyOf(data, data_size),
                              !.pool.data[tex].width = width,
                              !.pool.data[tex].height = height,
                              !.pool.data[tex].channels = channels,
                              !.pool.data[tex].format = TC_TEXTURE_RGBA8,
                              !.pool.data[tex].version = @ + 1,
                              !.pool.data[tex].name = IF name # "" THEN name ELSE @,
                              !.pool.data[tex].source_path =
                                  IF source_path # "" THEN source_path ELSE @],
                   ret |-> TRUE]

tc_texture_set_transforms(reg, tex, flip_x, flip_y, transpose) ==
    IF tex = NULL THEN reg
    ELSE [reg EXCEPT !.pool.data[tex].flip_x = IF flip_x THEN 1 ELSE 0,
                     !.pool.data[tex].flip_y = IF flip_y THEN 1 ELSE 0,
                     !.pool.data[tex].transpose = IF transpose THEN 1 ELSE 0,
                     !.pool.data[tex].version = @ + 1]

\* tc_shader_set_sources without the early return for an unchanged hash
tc_shader_set_sources_AlwaysBump(reg, shader_, vertex_source, fragment_source, geometry_source, name, source_path) ==
    IF shader_ = NULL THEN [reg |-> reg, ret |-> FALSE]
    ELSE LET item     == reg.pool.data[shader_]
             new_hash == tc_shader_compute_hash(vertex_source, fragment_source,
                                                geometry_source)
             removed  == IF item.source_hash # ""
                         THEN tc_resource_map_remove(reg.hash_to_index, item.source_hash)
                         ELSE reg.hash_to_index
             \* the loop finds the occupied slot that holds the shader
             added    == IF new_hash # "" /\ reg.pool.states[shader_] = TC_SLOT_OCCUPIED
                         THEN tc_resource_map_add(removed, new_hash,
                                                  tc_pack_index(shader_)).map
                         ELSE removed
         IN  [reg |-> [reg EXCEPT
                              !.hash_to_index = added,
                              !.pool.data[shader_].vertex_source = vertex_source,
                              !.pool.data[shader_].fragment_source = fragment_source,
                              !.pool.data[shader_].geometry_source = geometry_source,
                              !.pool.data[shader_].source_hash = new_hash,
                              !.pool.data[shader_].name = IF name # "" THEN name ELSE @,
                              !.pool.data[shader_].source_path =
                                  IF source_path # "" THEN source_path ELSE @,
                              !.pool.data[shader_].version = @ + 1],
                   ret |-> TRUE]

tc_shader_set_sources(reg, shader_, vertex_source, fragment_source, geometry_source, name, source_path) ==
    IF shader_ = NULL THEN [reg |-> reg, ret |-> FALSE]
    ELSE LET item     == reg.pool.data[shader_]
             new_hash == tc_shader_compute_hash(vertex_source, fragment_source,
                                                geometry_source)
             removed  == IF item.source_hash # ""
                         THEN tc_resource_map_remove(reg.hash_to_index, item.source_hash)
                         ELSE reg.hash_to_index
             \* the loop finds the occupied slot that holds the shader
             added    == IF new_hash # "" /\ reg.pool.states[shader_] = TC_SLOT_OCCUPIED
                         THEN tc_resource_map_add(removed, new_hash,
                                                  tc_pack_index(shader_)).map
                         ELSE removed
         IN  IF item.source_hash # "" /\ item.source_hash = new_hash
             THEN [reg |-> reg, ret |-> FALSE]
             ELSE [reg |-> [reg EXCEPT
                              !.hash_to_index = added,
                              !.pool.data[shader_].vertex_source = vertex_source,
                              !.pool.data[shader_].fragment_source = fragment_source,
                              !.pool.data[shader_].geometry_source = geometry_source,
                              !.pool.data[shader_].source_hash = new_hash,
                              !.pool.data[shader_].name = IF name # "" THEN name ELSE @,
                              !.pool.data[shader_].source_path =
                                  IF source_path # "" THEN source_path ELSE @,
                              !.pool.data[shader_].version = @ + 1],
                   ret |-> TRUE]

(***************************************************************************)
(* Material registry: tc_material_registry.c. Operations that release or   *)
(* add shader references take and return the shader registry (shreg) too.  *)
(***************************************************************************)
ZeroMaterial ==
    [uuid |-> "", name |-> "", version |-> 0, ref_count |-> 0, pool_index |-> 0,
     is_loaded |-> 0, phases |-> <<>>, texture_handles |-> <<>>]

tc_material_init(reg) ==
    IF reg.initialized THEN reg
    ELSE [reg EXCEPT !.initialized = TRUE,
                     !.pool = tc_pool_init(ZeroMaterial, RegCapacity),
                     !.uuid_to_index = tc_resource_map_new,
                     !.next_uuid = 1]

tc_material_find(reg, uuid) == registry_find(reg, uuid)

tc_material_contains(reg, uuid) == ~tc_handle_is_invalid(tc_material_find(reg, uuid))

tc_material_get(reg, h) ==
    IF ~reg.initialized \/ tc_handle_is_invalid(h) THEN NULL
    ELSE IF ~tc_pool_is_valid(reg.pool, h) THEN NULL
    ELSE tc_pool_get(reg.pool, h)

tc_material_is_valid(reg, h) ==
    IF ~reg.initialized \/ tc_handle_is_invalid(h) THEN FALSE
    ELSE tc_pool_is_valid(reg.pool, h)

\* tc_material_create without the test for a uuid that already exists
tc_material_create_NoCheck(reg0, uuid, name) ==
    LET reg == tc_material_init(reg0)
    IN  IF name = "" THEN [reg |-> reg, h |-> TC_HANDLE_INVALID, log |-> "error"]
        ELSE
        LET final_uuid == IF uuid # "" THEN uuid
                          ELSE tc_generate_prefixed_uuid("mat", reg.next_uuid)
            r1   == IF uuid # "" THEN reg ELSE [reg EXCEPT !.next_uuid = @ + 1]
            a    == tc_pool_alloc(r1.pool)
            item == [ZeroMaterial EXCEPT !.uuid = final_uuid, !.name = name,
                                         !.version = 1, !.ref_count = 0,
                                         !.is_loaded = 1]
            p2   == [a.pool EXCEPT !.data[a.h.index] = item]
            add  == tc_resource_map_add(r1.uuid_to_index, item.uuid,
                                        tc_pack_index(a.h.index))
        IN  IF add.ok
            THEN [reg |-> [r1 EXCEPT !.pool = p2, !.uuid_to_index = add.map],
                  h |-> a.h, log |-> "none"]
            ELSE [reg |-> [r1 EXCEPT !.pool = tc_pool_free_slot(p2, a.h).pool],
                  h |-> TC_HANDLE_INVALID, log |-> "error"]

tc_material_create(reg0, uuid, name) ==
    LET reg == tc_material_init(reg0)
    IN  IF name = "" THEN [reg |-> reg, h |-> TC_HANDLE_INVALID, log |-> "error"]
        ELSE IF uuid # "" /\ tc_material_contains(reg, uuid)
        THEN [reg |-> reg, h |-> TC_HANDLE_INVALID, log |-> "warn"]
        ELSE
        LET final_uuid == IF uuid # "" THEN uuid
                          ELSE tc_generate_prefixed_uuid("mat", reg.next_uuid)
            r1   == IF uuid # "" THEN reg ELSE [reg EXCEPT !.next_uuid = @ + 1]
            a    == tc_pool_alloc(r1.pool)
            item == [ZeroMaterial EXCEPT !.uuid = final_uuid, !.name = name,
                                         !.version = 1, !.ref_count = 0,
                                         !.is_loaded = 1]
            p2   == [a.pool EXCEPT !.data[a.h.index] = item]
            add  == tc_resource_map_add(r1.uuid_to_index, item.uuid,
                                        tc_pack_index(a.h.index))
        IN  IF add.ok
            THEN [reg |-> [r1 EXCEPT !.pool = p2, !.uuid_to_index = add.map],
                  h |-> a.h, log |-> "none"]
            ELSE [reg |-> [r1 EXCEPT !.pool = tc_pool_free_slot(p2, a.h).pool],
                  h |-> TC_HANDLE_INVALID, log |-> "error"]

\* material_release_shaders from phase i on: the shader registry afterwards
RECURSIVE material_release_shaders(_, _, _)
material_release_shaders(phases, i, shreg) ==
    IF i > Len(phases) THEN shreg
    ELSE LET s == tc_shader_get(shreg, phases[i].shader)
         IN  material_release_shaders(phases, i + 1,
                 IF s # NULL THEN tc_shader_release(shreg, s).reg ELSE shreg)

tc_material_destroy(reg, shreg, h) ==
    LET mat == tc_material_get(reg, h)
    IN  IF ~reg.initialized \/ mat = NULL
        THEN [reg |-> reg, shreg |-> shreg, ok |-> FALSE]
        ELSE LET item == reg.pool.data[mat]
             IN  [reg   |-> [reg EXCEPT
                               !.uuid_to_index =
                                   tc_resource_map_remove(reg.uuid_to_index, item.uuid),
                               !.pool = tc_pool_free_slot(reg.pool, h).pool],
                  shreg |-> material_release_shaders(item.phases, 1, shreg),
                  ok    |-> TRUE]

tc_material_add_ref(reg, mat) ==
    IF mat = NULL THEN reg
    ELSE [reg EXCEPT !.pool.data[mat].ref_count = @ + 1]

tc_material_release(reg, shreg, mat) ==
    IF mat = NULL \/ reg.pool.data[mat].ref_count = 0
    THEN [reg |-> reg, shreg |-> shreg, ret |-> FALSE, log |-> "none"]
    ELSE LET r1 == [reg EXCEPT !.pool.data[mat].ref_count = @ - 1]
         IN  IF r1.pool.data[mat].ref_count = 0
             THEN LET h == tc_material_find(r1, r1.pool.data[mat].uuid)
                      d == tc_material_destroy(r1, shreg, h)
                  IN  IF ~tc_handle_is_invalid(h)
                      THEN [reg |-> d.reg, shreg |-> d.shreg, ret |-> TRUE, log |-> "none"]
                      ELSE [reg |-> r1, shreg |-> shreg, ret |-> TRUE, log |-> "none"]
             ELSE [reg |-> r1, shreg |-> shreg, ret |-> FALSE, log |-> "none"]

(***************************************************************************)
(* Material phases. A tc_material_phase* is the 0-based index of the phase *)
(* in mat->phases, NULL when null; a const void* value is the tuple of the *)
(* numbers it points at, <<>> when NULL.                                   *)
(***************************************************************************)
TC_MATERIAL_MAX_PHASES == 8
TC_MATERIAL_MAX_TEXTURES == 16
TC_MATERIAL_MAX_UNIFORMS == 32
TC_UNIFORM_BOOL == 1
TC_UNIFORM_INT == 2
TC_UNIFORM_FLOAT == 3
TC_UNIFORM_VEC2 == 4
TC_UNIFORM_VEC3 == 5
TC_UNIFORM_VEC4 == 6
TC_UNIFORM_MAT4 == 7

ZeroPhase ==
    [shader |-> [index |-> 0, generation |-> 0], state |-> "", phase_mark |-> "",
     priority |-> 0, textures |-> <<>>, uniforms |-> <<>>]

ZeroUniform == [name |-> "", type |-> 0, data |-> <<>>]

\* position of the first entry called name, 0 if there is none
FindByName(entries, name) ==
    IF \E i \in 1..Len(entries) : entries[i].name = name
    THEN CHOOSE i \in 1..Len(entries) :
            /\ entries[i].name = name
            /\ \A j \in 1..(i - 1) : entries[j].name # name
    ELSE 0

\* number of values the switch of tc_material_phase_set_uniform stores, 0 in
\* the default case
UniformWidth(type) ==
    CASE type \in {TC_UNIFORM_BOOL, TC_UNIFORM_INT, TC_UNIFORM_FLOAT} -> 1
      [] type = TC_UNIFORM_VEC2 -> 2
      [] type = TC_UNIFORM_VEC3 -> 3
      [] type = TC_UNIFORM_VEC4 -> 4
      [] type = TC_UNIFORM_MAT4 -> 16
      [] OTHER -> 0

\* on a phase record: the phase afterwards and the bool returned
phase_set_uniform(phase, name, type, value) ==
    LET found == FindByName(phase.uniforms, name)
    IN  IF name = "" \/ value = <<>> THEN [phase |-> phase, ret |-> FALSE]
        ELSE IF found = 0 /\ Len(phase.uniforms) >= TC_MATERIAL_MAX_UNIFORMS
        THEN [phase |-> phase, ret |-> FALSE]
        ELSE
        LET us == IF found = 0
                  THEN Append(phase.uniforms, [ZeroUniform EXCEPT !.name = name])
                  ELSE phase.uniforms
            k  == IF found = 0 THEN Len(us) ELSE found
            w  == UniformWidth(type)
            d  == IF type = TC_UNIFORM_BOOL THEN <<IF value[1] # 0 THEN 1 ELSE 0>>
                  ELSE SubSeq(value, 1, w)
        IN  IF w = 0
            THEN [phase |-> [phase EXCEPT !.uniforms = [us EXCEPT ![k].type = type]],
                  ret |-> FALSE]
            ELSE [phase |-> [phase EXCEPT !.uniforms =
                                [us EXCEPT ![k].type = type, ![k].data = d]],
                  ret |-> TRUE]

phase_set_texture(phase, name, texture_) ==
    LET found == FindByName(phase.textures, name)
    IN  IF name = "" THEN [phase |-> phase, ret |-> FALSE]
        ELSE IF found = 0 /\ Len(phase.textures) >= TC_MATERIAL_MAX_TEXTURES
        THEN [phase |-> phase, ret |-> FALSE]
        ELSE IF found = 0
        THEN [phase |-> [phase EXCEPT !.textures =
                            Append(@, [name |-> name, texture |-> texture_])],
              ret |-> TRUE]
        ELSE [phase |-> [phase EXCEPT !.textures[found].texture = texture_],
              ret |-> TRUE]

phase_set_color(phase, r, g, b, a) ==
    phase_set_uniform(phase, "u_color", TC_UNIFORM_VEC4, <<r, g, b, a>>).phase

tc_material_phase_set_uniform(reg, mat, phase, name, type, value) ==
    IF phase = NULL THEN [reg |-> reg, ret |-> FALSE]
    ELSE LET r == phase_set_uniform(reg.pool.data[mat].phases[phase + 1],
                                    name, type, value)
         IN  [reg |-> [reg EXCEPT !.pool.data[mat].phases[phase + 1] = r.phase],
              ret |-> r.ret]

tc_material_phase_set_texture(reg, mat, phase, name, texture_) ==
    IF phase = NULL THEN [reg |-> reg, ret |-> FALSE]
    ELSE LET r == phase_set_texture(reg.pool.data[mat].phases[phase + 1],
                                    name, texture_)
         IN  [reg |-> [reg EXCEPT !.pool.data[mat].phases[phase + 1] = r.phase],
              ret |-> r.ret]

tc_material_phase_set_color(reg, mat, phase, r, g, b, a) ==
    IF phase = NULL THEN reg
    ELSE [reg EXCEPT !.pool.data[mat].phases[phase + 1] = phase_set_color(@, r, g, b, a)]

tc_material_add_phase(reg, shreg, mat, shader_, phase_mark, priority) ==
    IF mat = NULL \/ Len(reg.pool.data[mat].phases) >= TC_MATERIAL_MAX_PHASES
    THEN [reg |-> reg, shreg |-> shreg, ret |-> NULL]
    ELSE LET s     == tc_shader_get(shreg, shader_)
             phase == [ZeroPhase EXCEPT
                         !.shader = shader_,
                         !.state = "opaque",
                         !.priority = priority,
                         !.phase_mark = IF phase_mark # "" THEN phase_mark
                                        ELSE "opaque"]
         IN  [reg   |-> [reg EXCEPT !.pool.data[mat].phases = Append(@, phase),
                                    !.pool.data[mat].version = @ + 1],
              shreg |-> IF s # NULL THEN tc_shader_add_ref(shreg, s) ELSE shreg,
              ret   |-> Len(reg.pool.data[mat].phases)]

tc_material_remove_phase(reg, shreg, mat, index) ==
    IF mat = NULL \/ index >= Len(reg.pool.data[mat].phases)
    THEN [reg |-> reg, shreg |-> shreg, ret |-> FALSE]
    ELSE LET phases == reg.pool.data[mat].phases
             s      == tc_shader_get(shreg, phases[index + 1].shader)
         IN  [reg   |-> [reg EXCEPT
                           !.pool.data[mat].phases =
                               SubSeq(phases, 1, index) \o
                               SubSeq(phases, index + 2, Len(phases)),
                           !.pool.data[mat].version = @ + 1],
              shreg |-> IF s # NULL THEN tc_shader_release(shreg, s).reg ELSE shreg,
              ret   |-> TRUE]

tc_material_set_uniform(reg, mat, name, type, value) ==
    IF mat = NULL THEN reg
    ELSE [reg EXCEPT !.pool.data[mat].phases =
            [i \in 1..Len(@) |-> phase_set_uniform(@[i], name, type, value).phase]]

tc_material_set_texture(reg, mat, name, texture_) ==
    IF mat = NULL \/ name = "" THEN reg
    ELSE LET ths   == reg.pool.data[mat].texture_handles
             found == FindByName(ths, name)
             th    == [name |-> name, texture |-> texture_]
         IN  [reg EXCEPT
                !.pool.data[mat].phases =
                    [i \in 1..Len(@) |-> phase_set_texture(@[i], name, texture_).phase],
                !.pool.data[mat].texture_handles =
                    IF found # 0 THEN [ths EXCEPT ![found].texture = texture_]
                    ELSE IF Len(ths) < TC_MATERIAL_MAX_TEXTURES THEN Append(ths, th)
                    ELSE ths,
                !.pool.data[mat].version = @ + 1]

tc_material_set_color(reg, mat, r, g, b, a) ==
    IF mat = NULL THEN reg
    ELSE [reg EXCEPT
            !.pool.data[mat].phases =
                [i \in 1..Len(@) |-> phase_set_color(@[i], r, g, b, a)],
            !.pool.data[mat].version = @ + 1]

\* the registries before any of them is initialised
Kinds == {"mesh", "shader", "texture", "material"}

ShaderUninitialized ==
    [initialized   |-> FALSE,
     pool          |-> tc_pool_init(ZeroShader, 0),
     uuid_to_index |-> tc_resource_map_new,
     hash_to_index |-> tc_resource_map_new,
     next_uuid     |-> 1]

NoOp == [op |-> "init", h |-> TC_HANDLE_INVALID, uuid |-> "", rc |-> 0, ver |-> 0,
         ret |-> FALSE, log |-> "none", same |-> TRUE]

RegIdle ==
    /\ mesh = Uninitialized(ZeroMesh)
    /\ texture = Uninitialized(ZeroTexture)
    /\ shader = ShaderUninitialized
    /\ material = Uninitialized(ZeroMaterial)
    /\ focus = "none"
    /\ quota = 0
    /\ rlast = NoOp

\* tgfx_gpu_ops.h: a vtable pointer is <<>> (NULL) or <<the set of entries set>>
AllOps == {"texture_upload", "depth_texture_upload", "texture_bind",
           "depth_texture_bind", "texture_delete",
           "shader_preprocess", "shader_compile", "shader_use", "shader_delete",
           "mesh_upload", "mesh_draw", "mesh_delete", "buffer_delete", "mesh_create_vao"}

\* the static state of tgfx_resource_gpu.c and tc_gpu_context.c at program start,
\* with no context or share group allocated and no GL object alive
GpuStart ==
    [g_gpu_ops              |-> <<>>,
     g_registry             |-> <<>>,
     g_current_gpu_context  |-> NULL,
     g_default_gpu_context  |-> NULL,
     groups                 |-> <<>>,
     contexts               |-> <<>>,
     gl                     |-> [textures |-> {}, programs |-> {}, buffers |-> {}, vaos |-> {}]]

\* glast is the record of a resolve (upload, compile, bind) while it is the
\* last operation: what was called with which context current and what it
\* returned; id is the GL name the resource resolves to afterwards, pre holds
\* the slots it found, calls the vtable calls it made. It is NoGpuOp otherwise.
NoGpuOp ==
    [op |-> "none", ctx |-> NULL, h |-> TC_HANDLE_INVALID, index |-> 0, ver |-> -1,
     ret |-> 0, ok |-> FALSE, id |-> 0, calls |-> <<>>, failed |-> FALSE,
     again |-> FALSE, previd |-> 0, peers |-> {}, mine |-> FALSE, pre |-> <<>>,
     item |-> <<>>]

GpuIdle ==
    /\ gpu = GpuStart
    /\ uploaded = <<>>
    /\ glast = NoGpuOp

(***************************************************************************)
(* SpecPool: a client allocating and freeing slots of one pool             *)
(***************************************************************************)
PoolInit ==
    /\ pool = tc_pool_init(0, InitCapacity)
    /\ issued = {}
    /\ freed = {}
    /\ plast = [op |-> "init", h |-> TC_HANDLE_INVALID, ok |-> TRUE]
    /\ RegIdle
    /\ GpuIdle

\* the pool of SpecPool where it is not used
PoolIdle ==
    /\ pool = tc_pool_init(0, 0)
    /\ issued = {}
    /\ freed = {}
    /\ plast = [op |-> "init", h |-> TC_HANDLE_INVALID, ok |-> TRUE]

PoolAlloc ==
    /\ CanAlloc(pool)
    /\ LET r == tc_pool_alloc(pool)
       IN  /\ pool' = r.pool
           /\ issued' = issued \cup {r.h}
           /\ plast' = [op |-> "alloc", h |-> r.h, ok |-> TRUE]
    /\ UNCHANGED <<freed, regVars, gpuVars>>

\* free of any handle a caller may hold: live, stale or invalid
PoolFreeSlot ==
    \E h \in issued \cup {TC_HANDLE_INVALID} :
        /\ h.index \in 0..(pool.capacity - 1) => pool.generations[h.index] < MaxGen
        /\ LET r == tc_pool_free_slot(pool, h)
           IN  /\ pool' = r.pool
               /\ freed' = IF r.ok THEN freed \cup {h} ELSE freed
               /\ plast' = [op |-> "free", h |-> h, ok |-> r.ok]
        /\ UNCHANGED <<issued, regVars, gpuVars>>

PoolClear ==
    /\ \A i \in 0..(pool.capacity - 1) : pool.generations[i] < MaxGen
    /\ pool' = tc_pool_clear(pool)
    /\ plast' = [op |-> "clear", h |-> TC_HANDLE_INVALID, ok |-> TRUE]
    /\ UNCHANGED <<issued, freed, regVars, gpuVars>>

PoolNext == PoolAlloc \/ PoolFreeSlot \/ PoolClear

SpecPool == PoolInit /\ [][PoolNext]_vars

(***************************************************************************)
(* SpecRef: clients creating, referencing, releasing and destroying the    *)
(* resources of one registry. The four registries are separate static      *)
(* state; focus is the registry the behaviour works on.                    *)
(***************************************************************************)
RefInit ==
    /\ PoolIdle
    /\ mesh = Uninitialized(ZeroMesh)
    /\ texture = Uninitialized(ZeroTexture)
    /\ shader = ShaderUninitialized
    /\ material = Uninitialized(ZeroMaterial)
    /\ focus \in Kinds
    /\ quota = RefQuota
    /\ rlast = NoOp
    /\ GpuIdle

\* the registry the behaviour works on
Reg == CASE focus = "mesh" -> mesh
         [] focus = "shader" -> shader
         [] focus = "texture" -> texture
         [] OTHER -> material

\* create is called while uuids and slots of the model remain
CanCreate(reg, uuid) ==
    /\ uuid = "" => reg.next_uuid <= MaxAuto
    /\ reg.initialized => CanAlloc(reg.pool) /\ reg.pool.count < quota

\* handles a caller may hold: live ones, and the one of the last operation
Held(reg) == LiveHandles(reg) \cup {rlast.h}

\* the slot behind h is not freed once its generation reached the bound
MayFree(reg, h) ==
    tc_pool_is_valid(reg.pool, h) => reg.pool.generations[h.index] < RegMaxGen

\* the result record of an operation on the item behind h
Last(op, reg, h, ret, log, after) ==
    LET ptr == tc_pool_get(reg.pool, h)
    IN  [op |-> op, h |-> h,
         uuid |-> IF ptr = NULL THEN "" ELSE reg.pool.data[ptr].uuid,
         rc |-> IF ptr = NULL THEN NULL ELSE reg.pool.data[ptr].ref_count,
         ver |-> IF ptr = NULL THEN 0 ELSE reg.pool.data[ptr].version,
         ret |-> ret, log |-> log, same |-> (after = reg)]

MeshCreate ==
    /\ focus = "mesh"
    /\ \E uuid \in Uuids :
          /\ CanCreate(mesh, uuid)
          /\ LET r == tc_mesh_create(mesh, uuid)
             IN  /\ mesh' = r.reg
                 /\ rlast' = [NoOp EXCEPT !.op = "create", !.h = r.h, !.uuid = uuid,
                                          !.ret = ~tc_handle_is_invalid(r.h),
                                          !.log = r.log, !.same = (r.reg = mesh)]
    /\ UNCHANGED <<poolVars, texture, shader, material, focus, quota, gpuVars>>

MeshAddRef ==
    /\ focus = "mesh"
    /\ \E h \in Held(mesh) :
          LET ptr == tc_mesh_get(mesh, h)
          IN  /\ ptr # NULL => mesh.pool.data[ptr].ref_count < MaxRef
              /\ \E r \in {tc_mesh_add_ref(mesh, ptr)} :
                    /\ mesh' = r
                    /\ rlast' = Last("add_ref", mesh, h, FALSE, "none", r)
    /\ UNCHANGED <<poolVars, texture, shader, material, focus, quota, gpuVars>>

MeshRelease ==
    /\ focus = "mesh"
    /\ \E h \in Held(mesh) :
          /\ MayFree(mesh, h)
          /\ \E r \in {tc_mesh_release(mesh, tc_mesh_get(mesh, h))} :
                /\ mesh' = r.reg
                /\ rlast' = Last("release", mesh, h, r.ret, r.log, r.reg)
    /\ UNCHANGED <<poolVars, texture, shader, material, focus, quota, gpuVars>>

MeshDestroy ==
    /\ focus = "mesh"
    /\ \E h \in Held(mesh) :
          /\ MayFree(mesh, h)
          /\ \E r \in {tc_mesh_destroy(mesh, h)} :
                /\ mesh' = r.reg
                /\ rlast' = Last("destroy", mesh, h, r.ok, "none", r.reg)
    /\ UNCHANGED <<poolVars, texture, shader, material, focus, quota, gpuVars>>

TextureCreate ==
    /\ focus = "texture"
    /\ \E uuid \in Uuids :
          /\ CanCreate(texture, uuid)
          /\ LET r == tc_texture_create(texture, uuid)
             IN  /\ texture' = r.reg
                 /\ rlast' = [NoOp EXCEPT !.op = "create", !.h = r.h, !.uuid = uuid,
                                          !.ret = ~tc_handle_is_invalid(r.h),
                                          !.log = r.log, !.same = (r.reg = texture)]
    /\ UNCHANGED <<poolVars, mesh, shader, material, focus, quota, gpuVars>>

TextureAddRef ==
    /\ focus = "texture"
    /\ \E h \in Held(texture) :
          LET ptr == tc_texture_get(texture, h)
          IN  /\ ptr # NULL => texture.pool.data[ptr].ref_count < MaxRef
              /\ \E r \in {tc_texture_add_ref(texture, ptr)} :
                    /\ texture' = r
                    /\ rlast' = Last("add_ref", texture, h, FALSE, "none", r)
    /\ UNCHANGED <<poolVars, mesh, shader, material, focus, quota, gpuVars>>

TextureRelease ==
    /\ focus = "texture"
    /\ \E h \in Held(texture) :
          /\ MayFree(texture, h)
          /\ \E r \in {tc_texture_release(texture, tc_texture_get(texture, h))} :
                /\ texture' = r.reg
                /\ rlast' = Last("release", texture, h, r.ret, r.log, r.reg)
    /\ UNCHANGED <<poolVars, mesh, shader, material, focus, quota, gpuVars>>

TextureDestroy ==
    /\ focus = "texture"
    /\ \E h \in Held(texture) :
          /\ MayFree(texture, h)
          /\ \E r \in {tc_texture_destroy(texture, h)} :
                /\ texture' = r.reg
                /\ rlast' = Last("destroy", texture, h, r.ok, "none", r.reg)
    /\ UNCHANGED <<poolVars, mesh, shader, material, focus, quota, gpuVars>>

ShaderCreate ==
    /\ focus \in {"shader", "material"}
    /\ \E uuid \in Uuids :
          /\ CanCreate(shader, uuid)
          /\ LET r == tc_shader_create(shader, uuid)
             IN  /\ shader' = r.reg
                 /\ rlast' = [NoOp EXCEPT !.op = "create", !.h = r.h, !.uuid = uuid,
                                          !.ret = ~tc_handle_is_invalid(r.h),
                                          !.log = r.log, !.same = (r.reg = shader)]
    /\ UNCHANGED <<poolVars, mesh, texture, material, focus, quota, gpuVars>>

ShaderAddRef ==
    /\ focus = "shader"
    /\ \E h \in Held(shader) :
          LET ptr == tc_shader_get(shader, h)
          IN  /\ ptr # NULL => shader.pool.data[ptr].ref_count < MaxRef
              /\ \E r \in {tc_shader_add_ref(shader, ptr)} :
                    /\ shader' = r
                    /\ rlast' = Last("add_ref", shader, h, FALSE, "none", r)
    /\ UNCHANGED <<poolVars, mesh, texture, material, focus, quota, gpuVars>>

ShaderRelease ==
    /\ focus = "shader"
    /\ \E h \in Held(shader) :
          /\ MayFree(shader, h)
          /\ \E r \in {tc_shader_release(shader, tc_shader_get(shader, h))} :
                /\ shader' = r.reg
                /\ rlast' = Last("release", shader, h, r.ret, r.log, r.reg)
    /\ UNCHANGED <<poolVars, mesh, texture, material, focus, quota, gpuVars>>

ShaderDestroy ==
    /\ focus = "shader"
    /\ \E h \in Held(shader) :
          /\ MayFree(shader, h)
          /\ \E r \in {tc_shader_destroy(shader, h)} :
                /\ shader' = r.reg
                /\ rlast' = Last("destroy", shader, h, r.ok, "none", r.reg)
    /\ UNCHANGED <<poolVars, mesh, texture, material, focus, quota, gpuVars>>

MaterialCreate ==
    /\ focus = "material"
    /\ \E uuid \in Uuids, name \in Names :
          /\ CanCreate(material, uuid)
          /\ LET r == tc_material_create(material, uuid, name)
             IN  /\ material' = r.reg
                 /\ rlast' = [NoOp EXCEPT !.op = "create", !.h = r.h, !.uuid = uuid,
                                          !.ret = ~tc_handle_is_invalid(r.h),
                                          !.log = r.log, !.same = (r.reg = material)]
    /\ UNCHANGED <<poolVars, mesh, texture, shader, focus, quota, gpuVars>>

MaterialAddRef ==
    /\ focus = "material"
    /\ \E h \in Held(material) :
          LET ptr == tc_material_get(material, h)
          IN  /\ ptr # NULL => material.pool.data[ptr].ref_count < MaxRef
              /\ \E r \in {tc_material_add_ref(material, ptr)} :
                    /\ material' = r
                    /\ rlast' = Last("add_ref", material, h, FALSE, "none", r)
    /\ UNCHANGED <<poolVars, mesh, texture, shader, focus, quota, gpuVars>>

MaterialRelease ==
    /\ focus = "material"
    /\ \E h \in Held(material) :
          /\ MayFree(material, h)
          /\ \E r \in {tc_material_release(material, shader, tc_material_get(material, h))} :
                /\ material' = r.reg
                /\ shader' = r.shreg
                /\ rlast' = Last("release", material, h, r.ret, r.log, r.reg)
    /\ UNCHANGED <<poolVars, mesh, texture, focus, quota, gpuVars>>

MaterialDestroy ==
    /\ focus = "material"
    /\ \E h \in Held(material) :
          /\ MayFree(material, h)
          /\ \E r \in {tc_material_destroy(material, shader, h)} :
                /\ material' = r.reg
                /\ shader' = r.shreg
                /\ rlast' = Last("destroy", material, h, r.ok, "none", r.reg)
    /\ UNCHANGED <<poolVars, mesh, texture, focus, quota, gpuVars>>

RefNext ==
    \/ MeshCreate \/ MeshAddRef \/ MeshRelease \/ MeshDestroy
    \/ TextureCreate \/ TextureAddRef \/ TextureRelease \/ TextureDestroy
    \/ ShaderCreate \/ ShaderAddRef \/ ShaderRelease \/ ShaderDestroy
    \/ MaterialCreate \/ MaterialAddRef \/ MaterialRelease \/ MaterialDestroy

SpecRef == RefInit /\ [][RefNext]_vars

(***************************************************************************)
(* SpecVer: clients creating resources of one registry and changing their  *)
(* data. A material behaviour also creates the shaders its phases use.     *)
(***************************************************************************)
VerInit ==
    /\ PoolIdle
    /\ mesh = Uninitialized(ZeroMesh)
    /\ texture = Uninitialized(ZeroTexture)
    /\ shader = ShaderUninitialized
    /\ material = Uninitialized(ZeroMaterial)
    /\ focus \in Kinds
    /\ quota = VerQuota
    /\ rlast = NoOp
    /\ GpuIdle

\* a mutator is not called on a version that reached the bound
BelowMaxVersion(reg, ptr) == ptr # NULL => reg.pool.data[ptr].version < MaxVersion

\* tc_vertex_layout pointers: NULL, and a layout of 12 bytes per vertex
Layouts == {<<>>, <<[stride |-> 12]>>}
\* (data, count) arguments
VertexArgs == {<<"", 0>>, <<"", 1>>, <<"v", 1>>}
IndexArgs == {<<"", 0>>, <<"i", 3>>}
\* (data, width, height, channels) arguments
PixelArgs == {<<"", 0, 0, 0>>, <<"", 1, 1, 4>>, <<"px", 1, 1, 4>>}
Sources == {"", "s"}
\* (type, value) arguments
UniformArgs == {<<TC_UNIFORM_BOOL, <<7>>>>, <<TC_UNIFORM_INT, <<>>>>}
UniformNames == {"", "u_x"}
TextureNames == {"", "u_tex"}
TextureHandles == {[index |-> 0, generation |-> 1]}
\* phase_mark arguments: NULL, which add_phase replaces by "opaque"
PhaseMarks == {""}

MeshSetVertices ==
    /\ focus = "mesh"
    /\ \E h \in Held(mesh), a \in VertexArgs, layout \in Layouts, oom \in BOOLEAN :
          LET ptr == tc_mesh_get(mesh, h)
          IN  /\ BelowMaxVersion(mesh, ptr)
              /\ \E r \in {tc_mesh_set_vertices(mesh, ptr, a[1], a[2], layout, oom)} :
                    /\ mesh' = r.reg
                    /\ rlast' = Last("set_vertices", mesh, h, r.ret, "none", r.reg)
    /\ UNCHANGED <<poolVars, texture, shader, material, focus, quota, gpuVars>>

MeshSetIndices ==
    /\ focus = "mesh"
    /\ \E h \in Held(mesh), a \in IndexArgs, oom \in BOOLEAN :
          LET ptr == tc_mesh_get(mesh, h)
          IN  /\ BelowMaxVersion(mesh, ptr)
              /\ \E r \in {tc_mesh_set_indices(mesh, ptr, a[1], a[2], oom)} :
                    /\ mesh' = r.reg
                    /\ rlast' = Last("set_indices", mesh, h, r.ret, "none", r.reg)
    /\ UNCHANGED <<poolVars, texture, shader, material, focus, quota, gpuVars>>

MeshSetData ==
    /\ focus = "mesh"
    /\ \E h \in Held(mesh), v \in VertexArgs, layout \in Layouts, i \in IndexArgs,
          name \in Names, oomv \in BOOLEAN, oomi \in BOOLEAN :
          LET ptr == tc_mesh_get(mesh, h)
          IN  /\ BelowMaxVersion(mesh, ptr)
              /\ \E r \in {tc_mesh_set_data(mesh, ptr, v[1], v[2], layout, i[1], i[2], name, oomv, oomi)} :
                    /\ mesh' = r.reg
                    /\ rlast' = Last("set_data", mesh, h, r.ret, "none", r.reg)
    /\ UNCHANGED <<poolVars, texture, shader, material, focus, quota, gpuVars>>

TextureSetData ==
    /\ focus = "texture"
    /\ \E h \in Held(texture), a \in PixelArgs, name \in Names, oom \in BOOLEAN :
          LET ptr == tc_texture_get(texture, h)
          IN  /\ BelowMaxVersion(texture, ptr)
              /\ \E r \in {tc_texture_set_data(texture, ptr, a[1], a[2], a[3], a[4], name, "", oom)} :
                    /\ texture' = r.reg
                    /\ rlast' = Last("texture_set_data", texture, h, r.ret, "none", r.reg)
    /\ UNCHANGED <<poolVars, mesh, shader, material, focus, quota, gpuVars>>

TextureSetTransforms ==
    /\ focus = "texture"
    /\ \E h \in Held(texture), flip_x \in BOOLEAN, flip_y \in BOOLEAN,
          transpose \in BOOLEAN :
          LET ptr == tc_texture_get(texture, h)
          IN  /\ BelowMaxVersion(texture, ptr)
              /\ \E r \in {tc_texture_set_transforms(texture, ptr, flip_x, flip_y, transpose)} :
                    /\ texture' = r
                    /\ rlast' = Last("set_transforms", texture, h, ptr # NULL, "none", r)
    /\ UNCHANGED <<poolVars, mesh, shader, material, focus, quota, gpuVars>>

ShaderSetSources ==
    /\ focus = "shader"
    /\ \E h \in Held(shader), v \in Sources, f \in Sources, g \in Sources,
          name \in Names :
          LET ptr == tc_shader_get(shader, h)
          IN  /\ BelowMaxVersion(shader, ptr)
              /\ \E r \in {tc_shader_set_sources(shader, ptr, v, f, g, name, "")} :
                    /\ shader' = r.reg
                    /\ rlast' = Last("set_sources", shader, h, r.ret, "none", r.reg)
    /\ UNCHANGED <<poolVars, mesh, texture, material, focus, quota, gpuVars>>

\* phase pointers a caller may hold for a material: its phases, and NULL
PhasesOf(ptr) ==
    IF ptr = NULL THEN {NULL}
    ELSE (0..(Len(material.pool.data[ptr].phases) - 1)) \cup {NULL}

MaterialAddPhase ==
    /\ focus = "material"
    /\ \E h \in Held(material), sh \in LiveHandles(shader) \cup {TC_HANDLE_INVALID},
          mark \in PhaseMarks :
          LET ptr == tc_material_get(material, h)
              s   == tc_shader_get(shader, sh)
          IN  /\ BelowMaxVersion(material, ptr)
              /\ ptr # NULL => Len(material.pool.data[ptr].phases) < MaxPhases
              /\ s # NULL => shader.pool.data[s].ref_count < MaxRef
              /\ \E r \in {tc_material_add_phase(material, shader, ptr, sh, mark, 0)} :
                    /\ material' = r.reg
                    /\ shader' = r.shreg
                    /\ rlast' = Last("add_phase", material, h, r.ret # NULL, "none", r.reg)
    /\ UNCHANGED <<poolVars, mesh, texture, focus, quota, gpuVars>>

MaterialRemovePhase ==
    /\ focus = "material"
    /\ \E h \in Held(material), index \in 0..MaxPhases :
          LET ptr == tc_material_get(material, h)
          IN  /\ BelowMaxVersion(material, ptr)
              /\ \A i \in 0..(shader.pool.capacity - 1) :
                    shader.pool.generations[i] < RegMaxGen
              /\ \E r \in {tc_material_remove_phase(material, shader, ptr, index)} :
                    /\ material' = r.reg
                    /\ shader' = r.shreg
                    /\ rlast' = Last("remove_phase", material, h, r.ret, "none", r.reg)
    /\ UNCHANGED <<poolVars, mesh, texture, focus, quota, gpuVars>>

MaterialPhaseSetUniform ==
    /\ focus = "material"
    /\ \E h \in Held(material), name \in UniformNames, a \in UniformArgs :
          LET ptr == tc_material_get(material, h)
          IN  \E phase \in PhasesOf(ptr) :
                LET r == tc_material_phase_set_uniform(material, ptr, phase,
                                                       name, a[1], a[2])
                IN  /\ material' = r.reg
                    /\ rlast' = Last("phase_set_uniform", material, h, r.ret,
                                     "none", r.reg)
    /\ UNCHANGED <<poolVars, mesh, texture, shader, focus, quota, gpuVars>>

MaterialPhaseSetTexture ==
    /\ focus = "material"
    /\ \E h \in Held(material), name \in TextureNames, t \in TextureHandles :
          LET ptr == tc_material_get(material, h)
          IN  \E phase \in PhasesOf(ptr) :
                LET r == tc_material_phase_set_texture(material, ptr, phase, name, t)
                IN  /\ material' = r.reg
                    /\ rlast' = Last("phase_set_texture", material, h, r.ret,
                                     "none", r.reg)
    /\ UNCHANGED <<poolVars, mesh, texture, shader, focus, quota, gpuVars>>

MaterialPhaseSetColor ==
    /\ focus = "material"
    /\ \E h \in Held(material), c \in Colors :
          LET ptr == tc_material_get(material, h)
          IN  \E phase \in PhasesOf(ptr) :
                LET r == tc_material_phase_set_color(material, ptr, phase,
                                                     c[1], c[2], c[3], c[4])
                IN  /\ material' = r
                    /\ rlast' = Last("phase_set_color", material, h, phase # NULL,
                                     "none", r)
    /\ UNCHANGED <<poolVars, mesh, texture, shader, focus, quota, gpuVars>>

MaterialSetUniform ==
    /\ focus = "material"
    /\ \E h \in Held(material), name \in UniformNames, a \in UniformArgs :
          LET ptr == tc_material_get(material, h)
          IN  \E r \in {tc_material_set_uniform(material, ptr, name, a[1], a[2])} :
                  /\ material' = r
                  /\ rlast' = Last("set_uniform", material, h, ptr # NULL, "none", r)
    /\ UNCHANGED <<poolVars, mesh, texture, shader, focus, quota, gpuVars>>

MaterialSetTexture ==
    /\ focus = "material"
    /\ \E h \in Held(material), name \in TextureNames, t \in TextureHandles :
          LET ptr == tc_material_get(material, h)
          IN  /\ BelowMaxVersion(material, ptr)
              /\ \E r \in {tc_material_set_texture(material, ptr, name, t)} :
                    /\ material' = r
                    /\ rlast' = Last("set_texture", material, h, ptr # NULL /\ name # "",
                                     "none", r)
    /\ UNCHANGED <<poolVars, mesh, texture, shader, focus, quota, gpuVars>>

MaterialSetColor ==
    /\ focus = "material"
    /\ \E h \in Held(material), c \in Colors :
          LET ptr == tc_material_get(material, h)
          IN  /\ BelowMaxVersion(material, ptr)
              /\ \E r \in {tc_material_set_color(material, ptr, c[1], c[2], c[3], c[4])} :
                    /\ material' = r
                    /\ rlast' = Last("set_color", material, h, ptr # NULL, "none", r)
    /\ UNCHANGED <<poolVars, mesh, texture, shader, focus, quota, gpuVars>>

VerNext ==
    \/ MeshCreate \/ MeshSetVertices \/ MeshSetIndices \/ MeshSetData
    \/ TextureCreate \/ TextureSetData \/ TextureSetTransforms
    \/ ShaderCreate \/ ShaderSetSources
    \/ MaterialCreate \/ MaterialAddPhase \/ MaterialRemovePhase
    \/ MaterialPhaseSetUniform \/ MaterialPhaseSetTexture \/ MaterialPhaseSetColor
    \/ MaterialSetUniform \/ MaterialSetTexture \/ MaterialSetColor

SpecVer == VerInit /\ [][VerNext]_vars

(***************************************************************************)
(* tc_gpu_share_group: the GL objects shared by the contexts of one group  *)
(***************************************************************************)
GpuCapacity == 1        \* first capacity of a slot array (64 in the code)
MaxGroups == 1          \* addresses calloc can return for share groups
MaxCtx == 2             \* addresses calloc can return for contexts
MaxGlId == 2            \* GL names of one kind the driver hands out
GpuQuota == 1           \* resources alive per registry in SpecGpu
GpuMaxVersion == 3      \* a mutator is not called on a version that reached this in SpecGpu

TC_MAX_SHARE_GROUPS == 16

\* a function with one more / one less point, for heap objects kept by address
Put(f, k, v) == [x \in (DOMAIN f) \cup {k} |-> IF x = k THEN v ELSE f[x]]
Drop(f, k) == [x \in (DOMAIN f) \ {k} |-> f[x]]

\* the ids of an array's slots that are not 0, in index order
RECURSIVE NonZeroIds(_, _, _)
NonZeroIds(ids, i, capacity) ==
    IF i >= capacity THEN <<>>
    ELSE (IF ids[i] # 0 THEN <<ids[i]>> ELSE <<>>) \o NonZeroIds(ids, i + 1, capacity)

Range(s) == {s[i] : i \in DOMAIN s}

\* one vtable call per id
CallsOf(fn, ids) == [i \in 1..Len(ids) |-> <<fn, ids[i]>>]

RECURSIVE Doubled(_, _)
Doubled(new_cap, required_index) ==
    IF new_cap <= required_index THEN Doubled(new_cap * 2, required_index) ELSE new_cap

\* realloc is taken to succeed; fresh is the value of a new slot
ensure_capacity(array, capacity, required_index, fresh) ==
    IF required_index < capacity
    THEN [array |-> array, capacity |-> capacity]
    ELSE LET new_cap == Doubled(IF capacity = 0 THEN GpuCapacity ELSE capacity,
                                required_index)
         IN  [array    |-> [i \in 0..(new_cap - 1) |->
                               IF i < capacity THEN array[i] ELSE fresh],
              capacity |-> new_cap]

FreshSlot == [gl_id |-> 0, version |-> -1]
FreshMeshData == [vbo |-> 0, ebo |-> 0, version |-> -1]
FreshVao == [vao |-> 0, bound_vbo |-> 0, bound_ebo |-> 0]

\* calloc(1, sizeof(tc_gpu_share_group)) with key and refcount set
NewGroup(key) ==
    [key |-> key, refcount |-> 1,
     textures |-> <<>>, texture_capacity |-> 0,
     shaders |-> <<>>, shader_capacity |-> 0,
     mesh_data |-> <<>>, mesh_data_capacity |-> 0]

\* tc_gpu_share_group_get_or_create without the test of the registry's bound
tc_gpu_share_group_get_or_create_NoLimit(g, key, addr) ==
    LET found == {i \in 1..Len(g.g_registry) : g.groups[g.g_registry[i]].key = key}
    IN  IF found # {}
        THEN LET i == CHOOSE i \in found : \A j \in found : i <= j
                 group == g.g_registry[i]
             IN  [gpu |-> [g EXCEPT !.groups[group].refcount = @ + 1], ret |-> group]
        ELSE [gpu |-> [g EXCEPT !.groups = Put(@, addr, NewGroup(key)),
                                !.g_registry = Append(@, addr)],
              ret |-> addr]

\* addr: the address calloc returns if a group is allocated
tc_gpu_share_group_get_or_create(g, key, addr) ==
    LET found == {i \in 1..Len(g.g_registry) : g.groups[g.g_registry[i]].key = key}
    IN  IF found # {}
        THEN LET i == CHOOSE i \in found : \A j \in found : i <= j
                 group == g.g_registry[i]
             IN  [gpu |-> [g EXCEPT !.groups[group].refcount = @ + 1], ret |-> group]
        ELSE IF Len(g.g_registry) >= TC_MAX_SHARE_GROUPS
        THEN [gpu |-> g, ret |-> NULL]
        ELSE [gpu |-> [g EXCEPT !.groups = Put(@, addr, NewGroup(key)),
                                !.g_registry = Append(@, addr)],
              ret |-> addr]

tc_gpu_share_group_ref(g, group) ==
    IF group # NULL
    THEN [gpu |-> [g EXCEPT !.groups[group].refcount = @ + 1], ret |-> group]
    ELSE [gpu |-> g, ret |-> group]

\* the registry array without group: the last entry takes its place
RegistryRemove(reg, group) ==
    LET at == {i \in 1..Len(reg) : reg[i] = group}
    IN  IF at = {} THEN reg
        ELSE LET i == CHOOSE i \in at : \A j \in at : i <= j
             IN  SubSeq([reg EXCEPT ![i] = reg[Len(reg)]], 1, Len(reg) - 1)

Has(ops, fn) == ops # <<>> /\ fn \in ops[1]

\* tc_gpu_share_group_unref freeing the group without the vtable's delete calls
tc_gpu_share_group_unref_NoDelete(g, group) ==
    IF group = NULL THEN [gpu |-> g, calls |-> <<>>]
    ELSE IF g.groups[group].refcount - 1 > 0
    THEN [gpu |-> [g EXCEPT !.groups[group].refcount = @ - 1], calls |-> <<>>]
    ELSE [gpu |-> [g EXCEPT !.g_registry = RegistryRemove(@, group),
                            !.groups = Drop(@, group)],
          calls |-> <<>>]

tc_gpu_share_group_unref(g, group) ==
    IF group = NULL THEN [gpu |-> g, calls |-> <<>>]
    ELSE IF g.groups[group].refcount - 1 > 0
    THEN [gpu |-> [g EXCEPT !.groups[group].refcount = @ - 1], calls |-> <<>>]
    ELSE LET G == g.groups[group]
             ops == g.g_gpu_ops
             tex == IF Has(ops, "texture_delete")
                    THEN NonZeroIds([i \in DOMAIN G.textures |-> G.textures[i].gl_id],
                                    0, G.texture_capacity)
                    ELSE <<>>
             shd == IF Has(ops, "shader_delete")
                    THEN NonZeroIds([i \in DOMAIN G.shaders |-> G.shaders[i].gl_id],
                                    0, G.shader_capacity)
                    ELSE <<>>
             \* vbo and ebo of slot i are entries 2i and 2i+1
             buf == IF Has(ops, "buffer_delete")
                    THEN NonZeroIds([j \in 0..(2 * G.mesh_data_capacity - 1) |->
                                        IF j % 2 = 0 THEN G.mesh_data[j \div 2].vbo
                                                     ELSE G.mesh_data[j \div 2].ebo],
                                    0, 2 * G.mesh_data_capacity)
                    ELSE <<>>
         IN  [gpu |-> [g EXCEPT
                         !.gl.textures = @ \ Range(tex),
                         !.gl.programs = @ \ Range(shd),
                         !.gl.buffers = @ \ Range(buf),
                         !.g_registry = RegistryRemove(@, group),
                         !.groups = Drop(@, group)],
              calls |-> CallsOf("texture_delete", tex) \o CallsOf("shader_delete", shd)
                        \o CallsOf("buffer_delete", buf)]

tc_gpu_share_group_texture_slot(g, group, index) ==
    IF group = NULL THEN g
    ELSE LET G == g.groups[group]
             r == ensure_capacity(G.textures, G.texture_capacity, index, FreshSlot)
         IN  [g EXCEPT !.groups[group].textures = r.array,
                       !.groups[group].texture_capacity = r.capacity]

tc_gpu_share_group_shader_slot(g, group, index) ==
    IF group = NULL THEN g
    ELSE LET G == g.groups[group]
             r == ensure_capacity(G.shaders, G.shader_capacity, index, FreshSlot)
         IN  [g EXCEPT !.groups[group].shaders = r.array,
                       !.groups[group].shader_capacity = r.capacity]

tc_gpu_share_group_mesh_data_slot(g, group, index) ==
    IF group = NULL THEN g
    ELSE LET G == g.groups[group]
             r == ensure_capacity(G.mesh_data, G.mesh_data_capacity, index, FreshMeshData)
         IN  [g EXCEPT !.groups[group].mesh_data = r.array,
                       !.groups[group].mesh_data_capacity = r.capacity]


(***************************************************************************)
(* tc_gpu_context: per-context VAO slots and the current context           *)
(***************************************************************************)
ensure_vao_capacity(ctx_, required_index) ==
    LET r == ensure_capacity(ctx_.mesh_vaos, ctx_.mesh_vao_capacity, required_index,
                             FreshVao)
    IN  [ctx_ EXCEPT !.mesh_vaos = r.array, !.mesh_vao_capacity = r.capacity]

\* caddr, gaddr: the addresses calloc returns for the context and for a new group
tc_gpu_context_new(g, key, group, caddr, gaddr) ==
    LET r == IF group # NULL THEN tc_gpu_share_group_ref(g, group)
             ELSE tc_gpu_share_group_get_or_create(g, key, gaddr)
    IN  IF r.ret = NULL THEN [gpu |-> g, ret |-> NULL]
        ELSE [gpu |-> [r.gpu EXCEPT !.contexts =
                          Put(@, caddr, [key |-> key, share_group |-> r.ret,
                                         mesh_vaos |-> <<>>, mesh_vao_capacity |-> 0])],
              ret |-> caddr]

\* tc_gpu_context_free that leaves the share group's refcount alone
tc_gpu_context_free_NoUnref(g, ctx) ==
    IF ctx = NULL THEN [gpu |-> g, calls |-> <<>>]
    ELSE LET C == g.contexts[ctx]
             vaos == IF Has(g.g_gpu_ops, "mesh_delete")
                     THEN NonZeroIds([i \in DOMAIN C.mesh_vaos |-> C.mesh_vaos[i].vao],
                                     0, C.mesh_vao_capacity)
                     ELSE <<>>
         IN  [gpu |-> [g EXCEPT !.gl.vaos = @ \ Range(vaos), !.contexts = Drop(@, ctx)],
              calls |-> CallsOf("mesh_delete", vaos)]

tc_gpu_context_free(g, ctx) ==
    IF ctx = NULL THEN [gpu |-> g, calls |-> <<>>]
    ELSE LET C == g.contexts[ctx]
             vaos == IF Has(g.g_gpu_ops, "mesh_delete")
                     THEN NonZeroIds([i \in DOMAIN C.mesh_vaos |-> C.mesh_vaos[i].vao],
                                     0, C.mesh_vao_capacity)
                     ELSE <<>>
             r == tc_gpu_share_group_unref([g EXCEPT !.gl.vaos = @ \ Range(vaos)],
                                           C.share_group)
         IN  [gpu |-> [r.gpu EXCEPT !.contexts = Drop(@, ctx)],
              calls |-> CallsOf("mesh_delete", vaos) \o r.calls]

tc_gpu_set_context(g, ctx) == [g EXCEPT !.g_current_gpu_context = ctx]

tc_gpu_get_context(g) == g.g_current_gpu_context

tc_ensure_default_gpu_context(g, caddr, gaddr) ==
    IF g.g_current_gpu_context # NULL THEN g
    ELSE LET r == IF g.g_default_gpu_context = NULL
                  THEN tc_gpu_context_new(g, 0, NULL, caddr, gaddr)
                  ELSE [gpu |-> g, ret |-> g.g_default_gpu_context]
         IN  tc_gpu_set_context([r.gpu EXCEPT !.g_default_gpu_context = r.ret], r.ret)

\* The slot accessors return the state after the array has grown; the slot
\* they point to is the entry at index of the array, NULL when ...Null holds.
SlotNull(g, ctx) == ctx = NULL \/ g.contexts[ctx].share_group = NULL

tc_gpu_context_texture_slot(g, ctx, index) ==
    IF SlotNull(g, ctx) THEN g
    ELSE tc_gpu_share_group_texture_slot(g, g.contexts[ctx].share_group, index)

tc_gpu_context_shader_slot(g, ctx, index) ==
    IF SlotNull(g, ctx) THEN g
    ELSE tc_gpu_share_group_shader_slot(g, g.contexts[ctx].share_group, index)

tc_gpu_context_vao_slot(g, ctx, index) ==
    IF ctx = NULL THEN g
    ELSE [g EXCEPT !.contexts[ctx] = ensure_vao_capacity(@, index)]

tgfx_gpu_set_ops(g, ops) == [g EXCEPT !.g_gpu_ops = ops]

tgfx_gpu_get_ops(g) == g.g_gpu_ops

\* the slots of the current context for a pool index, after the accessors ran
TextureSlotOf(g, ctx, index) == g.groups[g.contexts[ctx].share_group].textures[index]
ShaderSlotOf(g, ctx, index) == g.groups[g.contexts[ctx].share_group].shaders[index]
MeshDataOf(g, ctx, index) == g.groups[g.contexts[ctx].share_group].mesh_data[index]
VaoSlotOf(g, ctx, index) == g.contexts[ctx].mesh_vaos[index]

(***************************************************************************)
(* tgfx_resource_gpu.c: texture operations. Each returns the GPU state, its *)
(* return value, the vtable calls it made in order, whether the vtable's    *)
(* upload returned 0 (failed), and whether gpu_id is a result the driver    *)
(* can give at the point of the call: 0, or a name not in use (env).        *)
(***************************************************************************)
TC_TEXTURE_DEPTH24 == 6

tc_texture_needs_upload(g, reg, tex) ==
    LET ctx == tc_gpu_get_context(g)
    IN  IF tex = NULL THEN [gpu |-> g, ret |-> FALSE]
        ELSE IF ctx = NULL THEN [gpu |-> g, ret |-> TRUE]
        ELSE LET item == reg.pool.data[tex]
                 g1   == tc_gpu_context_texture_slot(g, ctx, item.pool_index)
             IN  IF SlotNull(g, ctx) THEN [gpu |-> g1, ret |-> TRUE]
                 ELSE LET slot == TextureSlotOf(g1, ctx, item.pool_index)
                      IN  [gpu |-> g1,
                           ret |-> slot.gl_id = 0 \/ slot.version # item.version]

\* gpu_id: what the vtable's upload returns if it is called
tc_texture_upload_gpu_KeepVersion(g, reg, tex, gpu_id) ==
    LET Early(gp, ret, calls) ==
            [gpu |-> gp, ret |-> ret, calls |-> calls, failed |-> FALSE,
             env |-> gpu_id = 0]
        ops == tgfx_gpu_get_ops(g)
        ctx == tc_gpu_get_context(g)
    IN  IF tex = NULL \/ reg.pool.data[tex].data = "" THEN Early(g, FALSE, <<>>)
        ELSE IF ops = <<>> THEN Early(g, FALSE, <<>>)
        ELSE IF ctx = NULL THEN Early(g, FALSE, <<>>)
        ELSE LET item == reg.pool.data[tex]
                 g1   == tc_gpu_context_texture_slot(g, ctx, item.pool_index)
             IN  IF SlotNull(g, ctx) THEN Early(g1, FALSE, <<>>)
                 ELSE LET slot  == TextureSlotOf(g1, ctx, item.pool_index)
                          group == g1.contexts[ctx].share_group
                          del   == slot.gl_id # 0 /\ Has(ops, "texture_delete")
                          c1    == IF del THEN <<<<"texture_delete", slot.gl_id>>>>
                                   ELSE <<>>
                          g2    == IF del
                                   THEN [g1 EXCEPT !.gl.textures = @ \ {slot.gl_id}]
                                   ELSE g1
                          fn    == IF item.format = TC_TEXTURE_DEPTH24
                                   THEN "depth_texture_upload" ELSE "texture_upload"
                      IN  IF slot.gl_id # 0 /\ slot.version = item.version
                          THEN Early(g1, TRUE, <<>>)
                          ELSE IF ~Has(ops, fn) THEN Early(g2, FALSE, c1)
                          ELSE IF gpu_id = 0
                          THEN [gpu |-> g2, ret |-> FALSE, calls |-> c1 \o <<<<fn>>>>,
                                failed |-> TRUE, env |-> TRUE]
                          ELSE [gpu |-> [g2 EXCEPT
                                           !.gl.textures = @ \cup {gpu_id},
                                           !.groups[group].textures[item.pool_index].gl_id
                                               = gpu_id],
                                ret |-> TRUE, calls |-> c1 \o <<<<fn>>>>,
                                failed |-> FALSE, env |-> gpu_id \notin g2.gl.textures]

tc_texture_upload_gpu_IgnoreFailure(g, reg, tex, gpu_id) ==
    LET Early(gp, ret, calls) ==
            [gpu |-> gp, ret |-> ret, calls |-> calls, failed |-> FALSE,
             env |-> gpu_id = 0]
        ops == tgfx_gpu_get_ops(g)
        ctx == tc_gpu_get_context(g)
    IN  IF tex = NULL \/ reg.pool.data[tex].data = "" THEN Early(g, FALSE, <<>>)
        ELSE IF ops = <<>> THEN Early(g, FALSE, <<>>)
        ELSE IF ctx = NULL THEN Early(g, FALSE, <<>>)
        ELSE LET item == reg.pool.data[tex]
                 g1   == tc_gpu_context_texture_slot(g, ctx, item.pool_index)
             IN  IF SlotNull(g, ctx) THEN Early(g1, FALSE, <<>>)
                 ELSE LET slot  == TextureSlotOf(g1, ctx, item.pool_index)
                          group == g1.contexts[ctx].share_group
                          del   == slot.gl_id # 0 /\ Has(ops, "texture_delete")
                          c1    == IF del THEN <<<<"texture_delete", slot.gl_id>>>>
                                   ELSE <<>>
                          g2    == IF del
                                   THEN [g1 EXCEPT !.gl.textures = @ \ {slot.gl_id}]
                                   ELSE g1
                          fn    == IF item.format = TC_TEXTURE_DEPTH24
                                   THEN "depth_texture_upload" ELSE "texture_upload"
                      IN  IF slot.gl_id # 0 /\ slot.version = item.version
                          THEN Early(g1, TRUE, <<>>)
                          ELSE IF ~Has(ops, fn) THEN Early(g2, FALSE, c1)
                          ELSE [gpu |-> [g2 EXCEPT
                                           !.gl.textures = @ \cup ({gpu_id} \ {0}),
                                           !.groups[group].textures[item.pool_index] =
                                               [gl_id   |-> gpu_id,
                                                version |-> item.version]],
                                ret |-> TRUE, calls |-> c1 \o <<<<fn>>>>,
                                failed |-> gpu_id = 0,
                                env |-> gpu_id \notin g2.gl.textures]

tc_texture_upload_gpu(g, reg, tex, gpu_id) ==
    LET Early(gp, ret, calls) ==
            [gpu |-> gp, ret |-> ret, calls |-> calls, failed |-> FALSE,
             env |-> gpu_id = 0]
        ops == tgfx_gpu_get_ops(g)
        ctx == tc_gpu_get_context(g)
    IN  IF tex = NULL \/ reg.pool.data[tex].data = "" THEN Early(g, FALSE, <<>>)
        ELSE IF ops = <<>> THEN Early(g, FALSE, <<>>)
        ELSE IF ctx = NULL THEN Early(g, FALSE, <<>>)
        ELSE LET item == reg.pool.data[tex]
                 g1   == tc_gpu_context_texture_slot(g, ctx, item.pool_index)
             IN  IF SlotNull(g, ctx) THEN Early(g1, FALSE, <<>>)
                 ELSE LET slot  == TextureSlotOf(g1, ctx, item.pool_index)
                          group == g1.contexts[ctx].share_group
                          del   == slot.gl_id # 0 /\ Has(ops, "texture_delete")
                          c1    == IF del THEN <<<<"texture_delete", slot.gl_id>>>>
                                   ELSE <<>>
                          g2    == IF del
                                   THEN [g1 EXCEPT !.gl.textures = @ \ {slot.gl_id}]
                                   ELSE g1
                          fn    == IF item.format = TC_TEXTURE_DEPTH24
                                   THEN "depth_texture_upload" ELSE "texture_upload"
                      IN  IF slot.gl_id # 0 /\ slot.version = item.version
                          THEN Early(g1, TRUE, <<>>)
                          ELSE IF ~Has(ops, fn) THEN Early(g2, FALSE, c1)
                          ELSE IF gpu_id = 0
                          THEN [gpu |-> g2, ret |-> FALSE, calls |-> c1 \o <<<<fn>>>>,
                                failed |-> TRUE, env |-> TRUE]
                          ELSE [gpu |-> [g2 EXCEPT
                                           !.gl.textures = @ \cup {gpu_id},
                                           !.groups[group].textures[item.pool_index] =
                                               [gl_id   |-> gpu_id,
                                                version |-> item.version]],
                                ret |-> TRUE, calls |-> c1 \o <<<<fn>>>>,
                                failed |-> FALSE, env |-> gpu_id \notin g2.gl.textures]

texture_current_gpu_id(g, reg, tex) ==
    LET ctx == tc_gpu_get_context(g)
    IN  IF ctx = NULL THEN [gpu |-> g, ret |-> 0]
        ELSE LET index == reg.pool.data[tex].pool_index
                 g1    == tc_gpu_context_texture_slot(g, ctx, index)
             IN  [gpu |-> g1,
                  ret |-> IF SlotNull(g, ctx) THEN 0
                          ELSE TextureSlotOf(g1, ctx, index).gl_id]

tc_texture_bind_gpu_AlwaysUpload(g, reg, tex, unit, gpu_id) ==
    LET Early(gp) == [gpu |-> gp, ret |-> FALSE, calls |-> <<>>, failed |-> FALSE,
                      env |-> gpu_id = 0]
        ops == tgfx_gpu_get_ops(g)
    IN  IF tex = NULL THEN Early(g)
        ELSE IF ops = <<>> THEN Early(g)
        ELSE LET d  == tc_texture_needs_upload(g, reg, tex)
                 ctx  == tc_gpu_get_context(g)
                 index == reg.pool.data[tex].pool_index
                 \* the slot is reset before the upload
                 g0 == IF SlotNull(g, ctx) THEN d.gpu
                       ELSE [d.gpu EXCEPT
                               !.groups[d.gpu.contexts[ctx].share_group].textures[index]
                                   = FreshSlot]
                 u  == tc_texture_upload_gpu(g0, reg, tex, gpu_id)
                 c  == texture_current_gpu_id(u.gpu, reg, tex)
                 fn == IF reg.pool.data[tex].format = TC_TEXTURE_DEPTH24
                       THEN "depth_texture_bind" ELSE "texture_bind"
             IN  IF ~u.ret THEN u
                 ELSE IF c.ret = 0 \/ ~Has(ops, fn) THEN [u EXCEPT !.gpu = c.gpu, !.ret = FALSE]
                 ELSE [u EXCEPT !.gpu = c.gpu, !.ret = TRUE,
                                !.calls = @ \o <<<<fn, c.ret, unit>>>>]

tc_texture_bind_gpu(g, reg, tex, unit, gpu_id) ==
    LET Early(gp) == [gpu |-> gp, ret |-> FALSE, calls |-> <<>>, failed |-> FALSE,
                      env |-> gpu_id = 0]
        ops == tgfx_gpu_get_ops(g)
    IN  IF tex = NULL THEN Early(g)
        ELSE IF ops = <<>> THEN Early(g)
        ELSE LET n  == tc_texture_needs_upload(g, reg, tex)
                 u  == IF n.ret THEN tc_texture_upload_gpu(n.gpu, reg, tex, gpu_id)
                       ELSE [Early(n.gpu) EXCEPT !.ret = TRUE]
                 c  == texture_current_gpu_id(u.gpu, reg, tex)
                 fn == IF reg.pool.data[tex].format = TC_TEXTURE_DEPTH24
                       THEN "depth_texture_bind" ELSE "texture_bind"
             IN  IF ~u.ret THEN u
                 ELSE IF c.ret = 0 \/ ~Has(ops, fn) THEN [u EXCEPT !.gpu = c.gpu, !.ret = FALSE]
                 ELSE [u EXCEPT !.gpu = c.gpu, !.ret = TRUE,
                                !.calls = @ \o <<<<fn, c.ret, unit>>>>]

tc_texture_delete_gpu(g, reg, tex) ==
    LET ctx == tc_gpu_get_context(g)
        ops == tgfx_gpu_get_ops(g)
    IN  IF tex = NULL \/ ctx = NULL THEN [gpu |-> g, calls |-> <<>>]
        ELSE LET index == reg.pool.data[tex].pool_index
                 g1    == tc_gpu_context_texture_slot(g, ctx, index)
             IN  IF SlotNull(g, ctx) THEN [gpu |-> g1, calls |-> <<>>]
                 ELSE LET slot  == TextureSlotOf(g1, ctx, index)
                          group == g1.contexts[ctx].share_group
                          del   == slot.gl_id # 0 /\ Has(ops, "texture_delete")
                      IN  [gpu |-> [g1 EXCEPT
                                      !.gl.textures = IF del THEN @ \ {slot.gl_id} ELSE @,
                                      !.groups[group].textures[index] = FreshSlot],
                           calls |-> IF del THEN <<<<"texture_delete", slot.gl_id>>>>
                                     ELSE <<>>]

(***************************************************************************)
(* tgfx_resource_gpu.c: shader operations. program is what the vtable's    *)
(* shader_compile returns if it is called. The sources of the model hold   *)
(* no #include, so g_shader_preprocess is not called.                      *)
(***************************************************************************)
tc_shader_compile_gpu(g, reg, shader_, program) ==
    LET Early(gp, ret, calls) ==
            [gpu |-> gp, ret |-> ret, calls |-> calls, failed |-> FALSE,
             env |-> program = 0]
        ops == tgfx_gpu_get_ops(g)
        ctx == tc_gpu_get_context(g)
    IN  IF shader_ = NULL THEN Early(g, 0, <<>>)
        ELSE IF ~Has(ops, "shader_compile") THEN Early(g, 0, <<>>)
        ELSE IF ctx = NULL THEN Early(g, 0, <<>>)
        ELSE LET item == reg.pool.data[shader_]
                 g1   == tc_gpu_context_shader_slot(g, ctx, item.pool_index)
             IN  IF SlotNull(g, ctx) THEN Early(g1, 0, <<>>)
                 ELSE LET slot  == ShaderSlotOf(g1, ctx, item.pool_index)
                          group == g1.contexts[ctx].share_group
                          del   == slot.gl_id # 0 /\ Has(ops, "shader_delete")
                          c1    == IF del THEN <<<<"shader_delete", slot.gl_id>>>>
                                   ELSE <<>>
                          g2    == IF del
                                   THEN [g1 EXCEPT !.gl.programs = @ \ {slot.gl_id}]
                                   ELSE g1
                      IN  IF slot.gl_id # 0 /\ slot.version = item.version
                          THEN Early(g1, slot.gl_id, <<>>)
                          ELSE IF item.vertex_source = "" \/ item.fragment_source = ""
                          THEN Early(g1, 0, <<>>)
                          ELSE IF program = 0
                          THEN [gpu |-> g2, ret |-> 0,
                                calls |-> c1 \o <<<<"shader_compile">>>>,
                                failed |-> TRUE, env |-> TRUE]
                          ELSE [gpu |-> [g2 EXCEPT
                                           !.gl.programs = @ \cup {program},
                                           !.groups[group].shaders[item.pool_index] =
                                               [gl_id   |-> program,
                                                version |-> item.version]],
                                ret |-> program,
                                calls |-> c1 \o <<<<"shader_compile">>>>,
                                failed |-> FALSE, env |-> program \notin g2.gl.programs]

tc_shader_use_gpu(g, reg, shader_, program) ==
    LET ctx == tc_gpu_get_context(g)
        ops == tgfx_gpu_get_ops(g)
        None(gp) == [gpu |-> gp, ret |-> 0, calls |-> <<>>, failed |-> FALSE,
                     env |-> program = 0]
    IN  IF shader_ = NULL \/ ctx = NULL THEN None(g)
        ELSE LET item == reg.pool.data[shader_]
                 g1   == tc_gpu_context_shader_slot(g, ctx, item.pool_index)
                 null == SlotNull(g, ctx)
                 cur  == IF null THEN 0 ELSE ShaderSlotOf(g1, ctx, item.pool_index).gl_id
                 c    == IF cur = 0 \/ (~null /\ ShaderSlotOf(g1, ctx, item.pool_index).version
                                                   # item.version)
                         THEN tc_shader_compile_gpu(g1, reg, shader_, program)
                         ELSE [None(g1) EXCEPT !.ret = cur]
             IN  IF c.ret = 0 THEN c
                 ELSE IF Has(ops, "shader_use")
                 THEN [c EXCEPT !.calls = @ \o <<<<"shader_use", c.ret>>>>]
                 ELSE c

tc_shader_delete_gpu(g, reg, shader_) ==
    LET ctx == tc_gpu_get_context(g)
        ops == tgfx_gpu_get_ops(g)
    IN  IF shader_ = NULL \/ ctx = NULL THEN [gpu |-> g, calls |-> <<>>]
        ELSE LET index == reg.pool.data[shader_].pool_index
                 g1    == tc_gpu_context_shader_slot(g, ctx, index)
             IN  IF SlotNull(g, ctx) THEN [gpu |-> g1, calls |-> <<>>]
                 ELSE LET slot  == ShaderSlotOf(g1, ctx, index)
                          group == g1.contexts[ctx].share_group
                          del   == slot.gl_id # 0 /\ Has(ops, "shader_delete")
                      IN  [gpu |-> [g1 EXCEPT
                                      !.gl.programs = IF del THEN @ \ {slot.gl_id} ELSE @,
                                      !.groups[group].shaders[index] = FreshSlot],
                           calls |-> IF del THEN <<<<"shader_delete", slot.gl_id>>>>
                                     ELSE <<>>]

(***************************************************************************)
(* tgfx_resource_gpu.c: mesh operations. out is what the vtable returns if *)
(* it is called: vao from mesh_create_vao, (vao, vbo, ebo) from            *)
(* mesh_upload, all 0 when the call fails.                                 *)
(***************************************************************************)
tc_mesh_upload_gpu_KeepSharedVersion(g, reg, mesh_, out) ==
    LET NoOut == out.vao = 0 /\ out.vbo = 0 /\ out.ebo = 0
        Early(gp, ret, calls) ==
            [gpu |-> gp, ret |-> ret, calls |-> calls, failed |-> FALSE, env |-> NoOut]
        ops == tgfx_gpu_get_ops(g)
        ctx == tc_gpu_get_context(g)
    IN  IF mesh_ = NULL \/ reg.pool.data[mesh_].vertices = "" THEN Early(g, 0, <<>>)
        ELSE IF ~Has(ops, "mesh_upload") THEN Early(g, 0, <<>>)
        ELSE IF ctx = NULL THEN Early(g, 0, <<>>)
        ELSE LET item  == reg.pool.data[mesh_]
                 index == item.pool_index
                 group == g.contexts[ctx].share_group
                 g1    == tc_gpu_context_vao_slot(
                              tc_gpu_share_group_mesh_data_slot(g, group, index),
                              ctx, index)
             IN  IF group = NULL THEN Early(g1, 0, <<>>)
                 ELSE LET shared   == MeshDataOf(g1, ctx, index)
                          vao_slot == VaoSlotOf(g1, ctx, index)
                          data_current == shared.vbo # 0 /\ shared.version = item.version
                          delv == vao_slot.vao # 0 /\ Has(ops, "mesh_delete")
                          cv   == IF delv THEN <<<<"mesh_delete", vao_slot.vao>>>> ELSE <<>>
                          gv   == IF delv THEN [g1 EXCEPT !.gl.vaos = @ \ {vao_slot.vao}]
                                  ELSE g1
                      IN  IF data_current
                          THEN IF /\ vao_slot.vao # 0
                                  /\ vao_slot.bound_vbo = shared.vbo
                                  /\ vao_slot.bound_ebo = shared.ebo
                               THEN Early(g1, vao_slot.vao, <<>>)
                               ELSE IF ~Has(ops, "mesh_create_vao") THEN Early(gv, 0, cv)
                               ELSE LET call == <<"mesh_create_vao", shared.vbo, shared.ebo>>
                                    IN  IF out.vao = 0
                                        THEN [gpu |-> gv, ret |-> 0,
                                              calls |-> Append(cv, call),
                                              failed |-> TRUE, env |-> NoOut]
                                        ELSE [gpu |-> [gv EXCEPT
                                                  !.gl.vaos = @ \cup {out.vao},
                                                  !.contexts[ctx].mesh_vaos[index] =
                                                      [vao       |-> out.vao,
                                                       bound_vbo |-> shared.vbo,
                                                       bound_ebo |-> shared.ebo]],
                                              ret |-> out.vao,
                                              calls |-> Append(cv, call),
                                              failed |-> FALSE,
                                              env |-> /\ out.vbo = 0 /\ out.ebo = 0
                                                      /\ out.vao \notin gv.gl.vaos]
                          ELSE LET g2 == IF delv
                                         THEN [gv EXCEPT !.contexts[ctx].mesh_vaos[index]
                                                             = FreshVao]
                                         ELSE gv
                                   delb == Has(ops, "buffer_delete")
                                   old  == IF delb
                                           THEN SelectSeq(<<shared.vbo, shared.ebo>>,
                                                          LAMBDA b : b # 0)
                                           ELSE <<>>
                                   g3 == [g2 EXCEPT
                                            !.gl.buffers = @ \ Range(old),
                                            !.groups[group].mesh_data[index].vbo = 0,
                                            !.groups[group].mesh_data[index].ebo = 0]
                                   calls == cv \o CallsOf("buffer_delete", old)
                                               \o <<<<"mesh_upload">>>>
                               IN  IF out.vao = 0
                                   THEN [gpu |-> g3, ret |-> 0, calls |-> calls,
                                         failed |-> TRUE, env |-> NoOut]
                                   ELSE [gpu |-> [g3 EXCEPT
                                             !.gl.vaos = @ \cup {out.vao},
                                             !.gl.buffers = @ \cup {out.vbo, out.ebo},
                                             !.groups[group].mesh_data[index] =
                                                 [vbo |-> out.vbo, ebo |-> out.ebo,
                                                  version |-> shared.version],
                                             !.contexts[ctx].mesh_vaos[index] =
                                                 [vao       |-> out.vao,
                                                  bound_vbo |-> out.vbo,
                                                  bound_ebo |-> out.ebo]],
                                         ret |-> out.vao, calls |-> calls,
                                         failed |-> FALSE,
                                         env |-> /\ out.vao \notin g3.gl.vaos
                                                 /\ out.vbo # 0 /\ out.ebo # 0
                                                 /\ out.vbo # out.ebo
                                                 /\ {out.vbo, out.ebo} \cap g3.gl.buffers
                                                        = {}]

tc_mesh_upload_gpu(g, reg, mesh_, out) ==
    LET NoOut == out.vao = 0 /\ out.vbo = 0 /\ out.ebo = 0
        Early(gp, ret, calls) ==
            [gpu |-> gp, ret |-> ret, calls |-> calls, failed |-> FALSE, env |-> NoOut]
        ops == tgfx_gpu_get_ops(g)
        ctx == tc_gpu_get_context(g)
    IN  IF mesh_ = NULL \/ reg.pool.data[mesh_].vertices = "" THEN Early(g, 0, <<>>)
        ELSE IF ~Has(ops, "mesh_upload") THEN Early(g, 0, <<>>)
        ELSE IF ctx = NULL THEN Early(g, 0, <<>>)
        ELSE LET item  == reg.pool.data[mesh_]
                 index == item.pool_index
                 group == g.contexts[ctx].share_group
                 g1    == tc_gpu_context_vao_slot(
                              tc_gpu_share_group_mesh_data_slot(g, group, index),
                              ctx, index)
             IN  IF group = NULL THEN Early(g1, 0, <<>>)
                 ELSE LET shared   == MeshDataOf(g1, ctx, index)
                          vao_slot == VaoSlotOf(g1, ctx, index)
                          data_current == shared.vbo # 0 /\ shared.version = item.version
                          delv == vao_slot.vao # 0 /\ Has(ops, "mesh_delete")
                          cv   == IF delv THEN <<<<"mesh_delete", vao_slot.vao>>>> ELSE <<>>
                          gv   == IF delv THEN [g1 EXCEPT !.gl.vaos = @ \ {vao_slot.vao}]
                                  ELSE g1
                      IN  IF data_current
                          THEN IF /\ vao_slot.vao # 0
                                  /\ vao_slot.bound_vbo = shared.vbo
                                  /\ vao_slot.bound_ebo = shared.ebo
                               THEN Early(g1, vao_slot.vao, <<>>)
                               ELSE IF ~Has(ops, "mesh_create_vao") THEN Early(gv, 0, cv)
                               ELSE LET call == <<"mesh_create_vao", shared.vbo, shared.ebo>>
                                    IN  IF out.vao = 0
                                        THEN [gpu |-> gv, ret |-> 0,
                                              calls |-> Append(cv, call),
                                              failed |-> TRUE, env |-> NoOut]
                                        ELSE [gpu |-> [gv EXCEPT
                                                  !.gl.vaos = @ \cup {out.vao},
                                                  !.contexts[ctx].mesh_vaos[index] =
                                                      [vao       |-> out.vao,
                                                       bound_vbo |-> shared.vbo,
                                                       bound_ebo |-> shared.ebo]],
                                              ret |-> out.vao,
                                              calls |-> Append(cv, call),
                                              failed |-> FALSE,
                                              env |-> /\ out.vbo = 0 /\ out.ebo = 0
                                                      /\ out.vao \notin gv.gl.vaos]
                          ELSE LET g2 == IF delv
                                         THEN [gv EXCEPT !.contexts[ctx].mesh_vaos[index]
                                                             = FreshVao]
                                         ELSE gv
                                   delb == Has(ops, "buffer_delete")
                                   old  == IF delb
                                           THEN SelectSeq(<<shared.vbo, shared.ebo>>,
                                                          LAMBDA b : b # 0)
                                           ELSE <<>>
                                   g3 == [g2 EXCEPT
                                            !.gl.buffers = @ \ Range(old),
                                            !.groups[group].mesh_data[index].vbo = 0,
                                            !.groups[group].mesh_data[index].ebo = 0]
                                   calls == cv \o CallsOf("buffer_delete", old)
                                               \o <<<<"mesh_upload">>>>
                               IN  IF out.vao = 0
                                   THEN [gpu |-> g3, ret |-> 0, calls |-> calls,
                                         failed |-> TRUE, env |-> NoOut]
                                   ELSE [gpu |-> [g3 EXCEPT
                                             !.gl.vaos = @ \cup {out.vao},
                                             !.gl.buffers = @ \cup {out.vbo, out.ebo},
                                             !.groups[group].mesh_data[index] =
                                                 [vbo |-> out.vbo, ebo |-> out.ebo,
                                                  version |-> item.version],
                                             !.contexts[ctx].mesh_vaos[index] =
                                                 [vao       |-> out.vao,
                                                  bound_vbo |-> out.vbo,
                                                  bound_ebo |-> out.ebo]],
                                         ret |-> out.vao, calls |-> calls,
                                         failed |-> FALSE,
                                         env |-> /\ out.vao \notin g3.gl.vaos
                                                 /\ out.vbo # 0 /\ out.ebo # 0
                                                 /\ out.vbo # out.ebo
                                                 /\ {out.vbo, out.ebo} \cap g3.gl.buffers
                                                        = {}]

\* tc_mesh_delete_gpu clearing the mesh's VAO slot in every context
tc_mesh_delete_gpu_AllContexts(g, reg, mesh_) ==
    LET ctx == tc_gpu_get_context(g)
        ops == tgfx_gpu_get_ops(g)
    IN  IF mesh_ = NULL \/ ctx = NULL THEN [gpu |-> g, calls |-> <<>>]
        ELSE LET index    == reg.pool.data[mesh_].pool_index
                 g1       == tc_gpu_context_vao_slot(g, ctx, index)
                 vao_slot == VaoSlotOf(g1, ctx, index)
                 delv     == vao_slot.vao # 0 /\ Has(ops, "mesh_delete")
                 g2       == [g1 EXCEPT
                                !.gl.vaos = IF delv THEN @ \ {vao_slot.vao} ELSE @,
                                !.contexts = [c \in DOMAIN @ |->
                                    IF index < @[c].mesh_vao_capacity
                                    THEN [@[c] EXCEPT !.mesh_vaos[index] = FreshVao]
                                    ELSE @[c]]]
                 cv       == IF delv THEN <<<<"mesh_delete", vao_slot.vao>>>> ELSE <<>>
                 group    == g2.contexts[ctx].share_group
                 g3       == tc_gpu_share_group_mesh_data_slot(g2, group, index)
             IN  IF group = NULL \/ ops = <<>> THEN [gpu |-> g3, calls |-> cv]
                 ELSE LET shared == MeshDataOf(g3, ctx, index)
                          old    == IF Has(ops, "buffer_delete")
                                    THEN SelectSeq(<<shared.vbo, shared.ebo>>,
                                                   LAMBDA b : b # 0)
                                    ELSE <<>>
                      IN  [gpu |-> [g3 EXCEPT
                                      !.gl.buffers = @ \ Range(old),
                                      !.groups[group].mesh_data[index] = FreshMeshData],
                           calls |-> cv \o CallsOf("buffer_delete", old)]

tc_mesh_delete_gpu(g, reg, mesh_) ==
    LET ctx == tc_gpu_get_context(g)
        ops == tgfx_gpu_get_ops(g)
    IN  IF mesh_ = NULL \/ ctx = NULL THEN [gpu |-> g, calls |-> <<>>]
        ELSE LET index    == reg.pool.data[mesh_].pool_index
                 g1       == tc_gpu_context_vao_slot(g, ctx, index)
                 vao_slot == VaoSlotOf(g1, ctx, index)
                 delv     == vao_slot.vao # 0 /\ Has(ops, "mesh_delete")
                 g2       == [g1 EXCEPT
                                !.gl.vaos = IF delv THEN @ \ {vao_slot.vao} ELSE @,
                                !.contexts[ctx].mesh_vaos[index] = FreshVao]
                 cv       == IF delv THEN <<<<"mesh_delete", vao_slot.vao>>>> ELSE <<>>
                 group    == g2.contexts[ctx].share_group
                 g3       == tc_gpu_share_group_mesh_data_slot(g2, group, index)
             IN  IF group = NULL \/ ops = <<>> THEN [gpu |-> g3, calls |-> cv]
                 ELSE LET shared == MeshDataOf(g3, ctx, index)
                          old    == IF Has(ops, "buffer_delete")
                                    THEN SelectSeq(<<shared.vbo, shared.ebo>>,
                                                   LAMBDA b : b # 0)
                                    ELSE <<>>
                      IN  [gpu |-> [g3 EXCEPT
                                      !.gl.buffers = @ \ Range(old),
                                      !.groups[group].mesh_data[index] = FreshMeshData],
                           calls |-> cv \o CallsOf("buffer_delete", old)]

(***************************************************************************)
(* SpecGpu: a backend installing the vtable, clients creating and freeing  *)
(* contexts and choosing the current one, and resolving, mutating and      *)
(* destroying the resources of one registry (focus).                       *)
(***************************************************************************)
CtxKeys == {1}          \* key arguments of tc_gpu_context_new; 0 is the default context's

GlIds == 1..MaxGlId

GpuInit ==
    /\ PoolIdle
    /\ mesh = Uninitialized(ZeroMesh)
    /\ texture = Uninitialized(ZeroTexture)
    /\ shader = ShaderUninitialized
    /\ material = Uninitialized(ZeroMaterial)
    /\ focus \in {"mesh", "shader", "texture"}
    /\ quota = GpuQuota
    /\ rlast = NoOp
    /\ GpuIdle

\* the current context pointer can be used: NULL, or a context that is not freed
CurrentOk ==
    \/ gpu.g_current_gpu_context = NULL
    \/ gpu.g_current_gpu_context \in DOMAIN gpu.contexts

\* a share group with this key is registered
KeyFound(g, key) == \E i \in 1..Len(g.g_registry) : g.groups[g.g_registry[i]].key = key

GroupOf(g, ctx) == IF ctx \in DOMAIN g.contexts THEN g.contexts[ctx].share_group ELSE NULL

\* uploaded: a successful upload or compile of h at version ver with context
\* ctx current, and the id it gave
NoteUpload(ctx, h, ver, id) ==
    LET kept == {k \in DOMAIN uploaded : k[2].index # h.index \/ k[2] = h}
    IN  [k \in kept \cup {<<ctx, h>>} |->
            IF k = <<ctx, h>> THEN [ver |-> ver, id |-> id] ELSE uploaded[k]]

\* uploaded: the slots of a pool index were reset in the group of ctx
NoteDelete(ctx, index) ==
    LET kept == {k \in DOMAIN uploaded :
                    k[2].index # index \/ GroupOf(gpu, k[1]) # GroupOf(gpu, ctx)}
    IN  [k \in kept |-> uploaded[k]]

\* uploaded: ctx was freed
NoteFree(ctx) == [k \in {k \in DOMAIN uploaded : k[1] # ctx} |-> uploaded[k]]

\* the other contexts of the current context's group that resolved h at ver
Peers(h, ver) ==
    LET cur == gpu.g_current_gpu_context
    IN  {k[1] : k \in {k \in DOMAIN uploaded :
                          /\ k[2] = h /\ k[1] # cur
                          /\ uploaded[k].ver = ver
                          /\ cur \in DOMAIN gpu.contexts
                          /\ GroupOf(gpu, k[1]) = GroupOf(gpu, cur)}}

\* the record of a resolve (upload, compile, bind) of the item at ptr behind h
Resolved(op, reg, h, ptr, r, ok, id, pre) ==
    LET cur == gpu.g_current_gpu_context
        ver == IF ptr = NULL THEN -1 ELSE reg.pool.data[ptr].version
    IN  [op |-> op, ctx |-> cur, h |-> h, index |-> h.index, ver |-> ver,
         ret |-> r.ret, ok |-> ok, id |-> id, calls |-> r.calls, failed |-> r.failed,
         again |-> /\ ptr # NULL /\ glast.op = op /\ glast.ok /\ glast.h = h
                   /\ glast.ctx = cur /\ glast.ver = ver,
         previd |-> glast.id,
         peers |-> IF ptr = NULL THEN {}
                   ELSE {uploaded[<<c, h>>].id : c \in Peers(h, ver)},
         mine |-> /\ <<cur, h>> \in DOMAIN uploaded
                  /\ uploaded[<<cur, h>>].ver = ver,
         pre |-> pre,
         item |-> IF ptr = NULL THEN <<>> ELSE <<reg.pool.data[ptr]>>]

\* the backend installs its vtable once
GpuSetOps ==
    /\ gpu.g_gpu_ops = <<>>
    /\ \E ops \in {<<AllOps>>} :
          /\ gpu' = tgfx_gpu_set_ops(gpu, ops)
          /\ glast' = NoGpuOp
    /\ UNCHANGED <<poolVars, regVars, uploaded>>

\* calloc returns the lowest address of the model that is not in use
Calloc(used, max) ==
    LET free == (1..max) \ used
    IN  IF free = {} THEN NULL ELSE CHOOSE a \in free : \A b \in free : a <= b

GpuContextNew ==
    /\ \E key \in CtxKeys, group \in {NULL} \cup DOMAIN gpu.groups :
          LET caddr == Calloc(DOMAIN gpu.contexts, MaxCtx)
              gaddr == Calloc(DOMAIN gpu.groups, MaxGroups)
          IN  /\ caddr # NULL
              /\ (group = NULL /\ ~KeyFound(gpu, key)) => gaddr # NULL
              /\ \E r \in {tc_gpu_context_new(gpu, key, group, caddr, gaddr)} :
                    /\ gpu' = r.gpu
                    /\ glast' = NoGpuOp
    /\ UNCHANGED <<poolVars, regVars, uploaded>>

GpuContextFree ==
    /\ \E ctx \in DOMAIN gpu.contexts :
          \E r \in {tc_gpu_context_free(gpu, ctx)} :
              /\ gpu' = r.gpu
              /\ uploaded' = NoteFree(ctx)
              /\ glast' = NoGpuOp
    /\ UNCHANGED <<poolVars, regVars>>

GpuSetContext ==
    /\ \E ctx \in {NULL} \cup DOMAIN gpu.contexts :
          /\ ctx # gpu.g_current_gpu_context
          /\ gpu' = tc_gpu_set_context(gpu, ctx)
          /\ glast' = NoGpuOp
    /\ UNCHANGED <<poolVars, regVars, uploaded>>

GpuEnsureDefault ==
    /\ gpu.g_current_gpu_context = NULL
    /\ LET caddr == Calloc(DOMAIN gpu.contexts, MaxCtx)
           gaddr == Calloc(DOMAIN gpu.groups, MaxGroups)
       IN  \E r \in {tc_ensure_default_gpu_context(gpu, caddr, gaddr)} :
               LET made == gpu.g_default_gpu_context = NULL
               IN  /\ made => caddr # NULL
                   /\ (made /\ ~KeyFound(gpu, 0)) => gaddr # NULL
                   /\ gpu' = r
                   /\ glast' = NoGpuOp
    /\ UNCHANGED <<poolVars, regVars, uploaded>>

\* create and the mutators, with the arguments that matter to the GPU side
GpuTextureCreate ==
    /\ focus = "texture"
    /\ CanCreate(texture, "a")
    /\ texture' = tc_texture_create(texture, "a").reg
    /\ rlast' = [NoOp EXCEPT !.h = tc_texture_create(texture, "a").h]
    /\ glast' = NoGpuOp
    /\ UNCHANGED <<poolVars, mesh, shader, material, focus, quota, gpu, uploaded>>

GpuTextureSetData ==
    /\ focus = "texture"
    /\ \E h \in Held(texture), a \in {<<"", 0, 0, 0>>, <<"px", 1, 1, 4>>} :
          LET ptr == tc_texture_get(texture, h)
          IN  /\ ptr # NULL => texture.pool.data[ptr].version < GpuMaxVersion
              /\ texture' = tc_texture_set_data(texture, ptr, a[1], a[2], a[3], a[4],
                                                "", "", FALSE).reg
              /\ rlast' = [NoOp EXCEPT !.h = h]
              /\ glast' = NoGpuOp
    /\ UNCHANGED <<poolVars, mesh, shader, material, focus, quota, gpu, uploaded>>

\* a destroyed resource's handle is not resolved again: its uploads are forgotten
Forget(h) == [k \in {k \in DOMAIN uploaded : k[2] # h} |-> uploaded[k]]

GpuTextureDestroy ==
    /\ focus = "texture"
    /\ \E h \in Held(texture) :
          /\ MayFree(texture, h)
          /\ texture' = tc_texture_destroy(texture, h).reg
          /\ rlast' = [NoOp EXCEPT !.h = h]
          /\ uploaded' = IF tc_texture_destroy(texture, h).ok THEN Forget(h) ELSE uploaded
          /\ glast' = NoGpuOp
    /\ UNCHANGED <<poolVars, mesh, shader, material, focus, quota, gpu>>

GpuTextureUpload ==
    /\ focus = "texture"
    /\ CurrentOk
    /\ \E h \in Held(texture), gpu_id \in {0} \cup GlIds :
          LET tex == tc_texture_get(texture, h)
              cur == gpu.g_current_gpu_context
          IN  \E r \in {tc_texture_upload_gpu(gpu, texture, tex, gpu_id)} :
                  LET got == /\ tex # NULL /\ texture.pool.data[tex].data # ""
                             /\ gpu.g_gpu_ops # <<>> /\ ~SlotNull(gpu, cur)
                      pre == IF got
                             THEN <<TextureSlotOf(tc_gpu_context_texture_slot(gpu, cur, h.index),
                                                  cur, h.index)>>
                             ELSE <<>>
                      id  == IF got THEN TextureSlotOf(r.gpu, cur, h.index).gl_id ELSE 0
                  IN  /\ r.env
                      /\ gpu' = r.gpu
                      /\ uploaded' = IF r.ret
                                     THEN NoteUpload(cur, h, texture.pool.data[tex].version, id)
                                     ELSE uploaded
                      /\ glast' = Resolved("texture_upload", texture, h, tex, r, r.ret, id, pre)
    /\ UNCHANGED <<poolVars, regVars>>

GpuTextureBind ==
    /\ focus = "texture"
    /\ CurrentOk
    /\ \E h \in Held(texture), gpu_id \in {0} \cup GlIds :
          LET tex == tc_texture_get(texture, h)
              cur == gpu.g_current_gpu_context
          IN  \E r \in {tc_texture_bind_gpu(gpu, texture, tex, 0, gpu_id)} :
                  LET got == tex # NULL /\ gpu.g_gpu_ops # <<>> /\ ~SlotNull(gpu, cur)
                      pre == IF got
                             THEN <<TextureSlotOf(tc_gpu_context_texture_slot(gpu, cur, h.index),
                                                  cur, h.index)>>
                             ELSE <<>>
                      id  == IF got THEN TextureSlotOf(r.gpu, cur, h.index).gl_id ELSE 0
                  IN  /\ r.env
                      /\ gpu' = r.gpu
                      /\ glast' = Resolved("texture_bind", texture, h, tex, r, r.ret, id, pre)
    /\ UNCHANGED <<poolVars, regVars, uploaded>>

GpuTextureDelete ==
    /\ focus = "texture"
    /\ CurrentOk
    /\ \E h \in Held(texture) :
          LET tex == tc_texture_get(texture, h)
          IN  \E r \in {tc_texture_delete_gpu(gpu, texture, tex)} :
                  /\ gpu' = r.gpu
                  /\ uploaded' = IF tex # NULL
                                 THEN NoteDelete(gpu.g_current_gpu_context, h.index)
                                 ELSE uploaded
                  /\ glast' = NoGpuOp
    /\ UNCHANGED <<poolVars, regVars>>

GpuShaderCreate ==
    /\ focus = "shader"
    /\ CanCreate(shader, "a")
    /\ shader' = tc_shader_create(shader, "a").reg
    /\ rlast' = [NoOp EXCEPT !.h = tc_shader_create(shader, "a").h]
    /\ glast' = NoGpuOp
    /\ UNCHANGED <<poolVars, mesh, texture, material, focus, quota, gpu, uploaded>>

GpuShaderSetSources ==
    /\ focus = "shader"
    /\ \E h \in Held(shader), v \in {"", "s", "t"} :
          LET ptr == tc_shader_get(shader, h)
          IN  /\ ptr # NULL => shader.pool.data[ptr].version < GpuMaxVersion
              /\ shader' = tc_shader_set_sources(shader, ptr, v, "s", "", "", "").reg
              /\ rlast' = [NoOp EXCEPT !.h = h]
              /\ glast' = NoGpuOp
    /\ UNCHANGED <<poolVars, mesh, texture, material, focus, quota, gpu, uploaded>>

GpuShaderDestroy ==
    /\ focus = "shader"
    /\ \E h \in Held(shader) :
          /\ MayFree(shader, h)
          /\ shader' = tc_shader_destroy(shader, h).reg
          /\ rlast' = [NoOp EXCEPT !.h = h]
          /\ uploaded' = IF tc_shader_destroy(shader, h).ok THEN Forget(h) ELSE uploaded
          /\ glast' = NoGpuOp
    /\ UNCHANGED <<poolVars, mesh, texture, material, focus, quota, gpu>>

GpuShaderCompile ==
    /\ focus = "shader"
    /\ CurrentOk
    /\ \E h \in Held(shader), program \in {0} \cup GlIds :
          LET shader_ == tc_shader_get(shader, h)
              cur == gpu.g_current_gpu_context
          IN  \E r \in {tc_shader_compile_gpu(gpu, shader, shader_, program)} :
                  LET got == /\ shader_ # NULL /\ Has(gpu.g_gpu_ops, "shader_compile")
                             /\ ~SlotNull(gpu, cur)
                      pre == IF got
                             THEN <<ShaderSlotOf(tc_gpu_context_shader_slot(gpu, cur, h.index),
                                                 cur, h.index)>>
                             ELSE <<>>
                  IN  /\ r.env
                      /\ gpu' = r.gpu
                      /\ uploaded' = IF r.ret # 0
                                     THEN NoteUpload(cur, h, shader.pool.data[shader_].version,
                                                     r.ret)
                                     ELSE uploaded
                      /\ glast' = Resolved("shader_compile", shader, h, shader_, r, r.ret # 0,
                                           r.ret, pre)
    /\ UNCHANGED <<poolVars, regVars>>

GpuShaderUse ==
    /\ focus = "shader"
    /\ CurrentOk
    /\ \E h \in Held(shader), program \in {0} \cup GlIds :
          LET shader_ == tc_shader_get(shader, h)
              cur == gpu.g_current_gpu_context
          IN  \E r \in {tc_shader_use_gpu(gpu, shader, shader_, program)} :
                  LET got == shader_ # NULL /\ ~SlotNull(gpu, cur)
                      pre == IF got
                             THEN <<ShaderSlotOf(tc_gpu_context_shader_slot(gpu, cur, h.index),
                                                 cur, h.index)>>
                             ELSE <<>>
                  IN  /\ r.env
                      /\ gpu' = r.gpu
                      /\ glast' = Resolved("shader_use", shader, h, shader_, r, r.ret # 0,
                                           r.ret, pre)
    /\ UNCHANGED <<poolVars, regVars, uploaded>>

GpuShaderDelete ==
    /\ focus = "shader"
    /\ CurrentOk
    /\ \E h \in Held(shader) :
          LET shader_ == tc_shader_get(shader, h)
          IN  \E r \in {tc_shader_delete_gpu(gpu, shader, shader_)} :
                  /\ gpu' = r.gpu
                  /\ uploaded' = IF shader_ # NULL
                                 THEN NoteDelete(gpu.g_current_gpu_context, h.index)
                                 ELSE uploaded
                  /\ glast' = NoGpuOp
    /\ UNCHANGED <<poolVars, regVars>>

GpuMeshCreate ==
    /\ focus = "mesh"
    /\ CanCreate(mesh, "a")
    /\ mesh' = tc_mesh_create(mesh, "a").reg
    /\ rlast' = [NoOp EXCEPT !.h = tc_mesh_create(mesh, "a").h]
    /\ glast' = NoGpuOp
    /\ UNCHANGED <<poolVars, texture, shader, material, focus, quota, gpu, uploaded>>

GpuMeshSetVertices ==
    /\ focus = "mesh"
    /\ \E h \in Held(mesh), a \in {<<"", 0>>, <<"v", 1>>} :
          LET ptr == tc_mesh_get(mesh, h)
          IN  /\ ptr # NULL => mesh.pool.data[ptr].version < GpuMaxVersion
              /\ mesh' = tc_mesh_set_vertices(mesh, ptr, a[1], a[2],
                                              <<[stride |-> 12]>>, FALSE).reg
              /\ rlast' = [NoOp EXCEPT !.h = h]
              /\ glast' = NoGpuOp
    /\ UNCHANGED <<poolVars, texture, shader, material, focus, quota, gpu, uploaded>>

GpuMeshDestroy ==
    /\ focus = "mesh"
    /\ \E h \in Held(mesh) :
          /\ MayFree(mesh, h)
          /\ mesh' = tc_mesh_destroy(mesh, h).reg
          /\ rlast' = [NoOp EXCEPT !.h = h]
          /\ uploaded' = IF tc_mesh_destroy(mesh, h).ok THEN Forget(h) ELSE uploaded
          /\ glast' = NoGpuOp
    /\ UNCHANGED <<poolVars, texture, shader, material, focus, quota, gpu>>

\* what the vtable's mesh calls can return: nothing, a VAO, a VAO and two buffers
MeshOuts ==
    {[vao |-> 0, vbo |-> 0, ebo |-> 0]}
    \cup {[vao |-> v, vbo |-> 0, ebo |-> 0] : v \in GlIds}
    \cup {[vao |-> v, vbo |-> b, ebo |-> e] : v \in GlIds, b \in GlIds, e \in GlIds}

GpuMeshUpload ==
    /\ focus = "mesh"
    /\ CurrentOk
    /\ \E h \in Held(mesh), out \in MeshOuts :
          LET mesh_ == tc_mesh_get(mesh, h)
              cur == gpu.g_current_gpu_context
          IN  \E r \in {tc_mesh_upload_gpu(gpu, mesh, mesh_, out)} :
                  LET got == /\ mesh_ # NULL /\ mesh.pool.data[mesh_].vertices # ""
                             /\ Has(gpu.g_gpu_ops, "mesh_upload") /\ ~SlotNull(gpu, cur)
                      g1  == tc_gpu_context_vao_slot(
                                 tc_gpu_share_group_mesh_data_slot(gpu, GroupOf(gpu, cur),
                                                                   h.index),
                                 cur, h.index)
                      pre == IF got THEN <<MeshDataOf(g1, cur, h.index), VaoSlotOf(g1, cur, h.index)>>
                             ELSE <<>>
                  IN  /\ r.env
                      /\ gpu' = r.gpu
                      /\ uploaded' = IF r.ret # 0
                                     THEN NoteUpload(cur, h, mesh.pool.data[mesh_].version, r.ret)
                                     ELSE uploaded
                      /\ glast' = Resolved("mesh_upload", mesh, h, mesh_, r, r.ret # 0, r.ret, pre)
    /\ UNCHANGED <<poolVars, regVars>>

GpuMeshDelete ==
    /\ focus = "mesh"
    /\ CurrentOk
    /\ \E h \in Held(mesh) :
          LET mesh_ == tc_mesh_get(mesh, h)
          IN  \E r \in {tc_mesh_delete_gpu(gpu, mesh, mesh_)} :
                  /\ gpu' = r.gpu
                  /\ uploaded' = IF mesh_ # NULL
                                 THEN NoteDelete(gpu.g_current_gpu_context, h.index)
                                 ELSE uploaded
                  /\ glast' = NoGpuOp
    /\ UNCHANGED <<poolVars, regVars>>

GpuNext ==
    \/ GpuSetOps \/ GpuContextNew \/ GpuContextFree \/ GpuSetContext \/ GpuEnsureDefault
    \/ GpuTextureCreate \/ GpuTextureDestroy \/ GpuTextureSetData
    \/ GpuTextureUpload \/ GpuTextureBind \/ GpuTextureDelete
    \/ GpuShaderCreate \/ GpuShaderDestroy \/ GpuShaderSetSources
    \/ GpuShaderCompile \/ GpuShaderUse \/ GpuShaderDelete
    \/ GpuMeshCreate \/ GpuMeshDestroy \/ GpuMeshSetVertices
    \/ GpuMeshUpload \/ GpuMeshDelete

SpecGpu == GpuInit /\ [][GpuNext]_vars

(***************************************************************************)
(* C1: a handle returned by tc_pool_alloc is valid right after the alloc,  *)
(* and a handle whose tc_pool_free_slot succeeded is never valid again,    *)
(* whatever alloc / free / grow / clear follows, also once its slot index  *)
(* has been handed out again under a new handle.                           *)
(***************************************************************************)
C1_FreedHandleNeverValid ==
    /\ plast.op = "alloc" => tc_pool_is_valid(pool, plast.h)
    /\ \A h \in freed : ~tc_pool_is_valid(pool, h)

\* a freed handle whose slot is occupied again by a live handle, after a grow
C1_Witness ==
    /\ pool.capacity > InitCapacity
    /\ \E h \in freed : \E h2 \in issued \ freed :
          /\ h2.index = h.index
          /\ tc_pool_is_valid(pool, h2)
          /\ ~tc_pool_is_valid(pool, h)

\* the resource the last registry operation worked on is still there / gone
LastAlive ==
    /\ Reg.initialized
    /\ tc_pool_is_valid(Reg.pool, rlast.h)
    /\ ~tc_handle_is_invalid(registry_find(Reg, rlast.uuid))

LastDestroyed ==
    /\ ~(Reg.initialized /\ tc_pool_is_valid(Reg.pool, rlast.h))
    /\ tc_handle_is_invalid(registry_find(Reg, rlast.uuid))

(***************************************************************************)
(* C2: for a resource of any kind, the release that takes ref_count from   *)
(* 1 to 0 (the n-th release after n add_ref) destroys the resource: its    *)
(* handle is invalid and its uuid is not found any more; a release that    *)
(* leaves ref_count above 0 (one of the first n-1) does not destroy it.    *)
(* tc_texture_release only decrements, so the statement fails for the      *)
(* texture registry.                                                       *)
(***************************************************************************)
C2_LastReleaseDestroys ==
    (rlast.op = "release" /\ rlast.rc >= 1) =>
        /\ rlast.rc = 1 => LastDestroyed
        /\ rlast.rc > 1 => LastAlive

\* the version now of the resource the last registry operation worked on
LastVersion == Reg.pool.data[rlast.h.index].version

\* operations that change data the GPU representation is made from
GpuMutators ==
    {"set_vertices", "set_indices", "set_data", "texture_set_data", "set_transforms",
     "set_sources", "add_phase", "remove_phase", "set_texture", "phase_set_texture"}

\* operations that set per-draw uniform values
UniformSetters == {"phase_set_uniform", "set_uniform", "phase_set_color", "set_color"}

(***************************************************************************)
(* C8: every mutation of data that affects the GPU representation (mesh    *)
(* set_vertices / set_indices / set_data, texture set_data /               *)
(* set_transforms, shader set_sources with changed sources, material       *)
(* add_phase / remove_phase, texture attached to a material or to one of   *)
(* its phases) that was applied increments the version of the resource.    *)
(* tc_material_phase_set_texture stores the texture and leaves the version *)
(* of the material alone.                                                  *)
(***************************************************************************)
C8_MutationBumpsVersion ==
    (rlast.op \in GpuMutators /\ rlast.ret /\ ~rlast.same) =>
        LastVersion = rlast.ver + 1

(***************************************************************************)
(* C9: setting per-draw uniform values on the phases of a material         *)
(* (tc_material_phase_set_uniform, tc_material_set_uniform and the colour  *)
(* setters storing u_color) leaves the version of the material unchanged.  *)
(* tc_material_set_color increments it.                                    *)
(***************************************************************************)
C9_UniformSettersKeepVersion ==
    (rlast.op \in UniformSetters /\ rlast.rc # NULL) => LastVersion = rlast.ver

(***************************************************************************)
(* C10: for every kind, release on a resource whose ref_count is 0 changes *)
(* nothing (ref_count stays 0, the resource stays, the registry is as it   *)
(* was) and logs a warning. tc_material_release and tc_texture_release     *)
(* log nothing, so the statement fails for these two registries.           *)
(***************************************************************************)
C10_ReleaseAtZeroWarns ==
    (rlast.op = "release" /\ rlast.rc = 0) =>
        /\ rlast.same
        /\ LastAlive
        /\ Reg.pool.data[rlast.h.index].ref_count = 0
        /\ rlast.log = "warn"


\* the slots a resolve worked on, as they are after it
TextureSlotNow == TextureSlotOf(gpu, glast.ctx, glast.index)
ShaderSlotNow == ShaderSlotOf(gpu, glast.ctx, glast.index)
MeshDataNow == MeshDataOf(gpu, glast.ctx, glast.index)
VaoSlotNow == VaoSlotOf(gpu, glast.ctx, glast.index)

UploadOps == {"texture_upload", "shader_compile", "mesh_upload"}

\* the vtable entries that upload, compile or build
UploadCalls == {"texture_upload", "depth_texture_upload", "shader_compile",
                "mesh_upload", "mesh_create_vao"}

CallsTo(fns) == SelectSeq(glast.calls, LAMBDA c : c[1] \in fns)

C4_FailureLeavesSlot ==
    glast.failed =>
        /\ glast.ret = IF glast.op \in {"texture_upload", "texture_bind"} THEN FALSE ELSE 0
        /\ ~glast.ok
        /\ Len(CallsTo(UploadCalls)) = 1
        /\ glast.item = <<Reg.pool.data[tc_pool_get(Reg.pool, glast.h)]>>
        /\ glast.op \in {"texture_upload", "texture_bind"} =>
              TextureSlotNow.gl_id \in {0, glast.pre[1].gl_id}
        /\ glast.op \in {"shader_compile", "shader_use"} =>
              ShaderSlotNow.gl_id \in {0, glast.pre[1].gl_id}
        /\ glast.op = "mesh_upload" =>
              /\ MeshDataNow.vbo \in {0, glast.pre[1].vbo}
              /\ MeshDataNow.ebo \in {0, glast.pre[1].ebo}
              /\ VaoSlotNow.vao \in {0, glast.pre[2].vao}

\* a failed upload over a slot that held an id
C4_Witness ==
    /\ glast.failed
    /\ glast.op = "texture_upload"
    /\ glast.pre[1].gl_id # 0

C6_SharedMeshBuildsOneVao ==
    (glast.op = "mesh_upload" /\ glast.peers # {} /\ ~glast.mine) =>
        /\ CallsTo({"mesh_create_vao"})
              = <<<<"mesh_create_vao", glast.pre[1].vbo, glast.pre[1].ebo>>>>
        /\ CallsTo({"mesh_upload"}) = <<>>

(***************************************************************************)
(* C7: when tc_mesh_upload_gpu finds the shared data slot stale (no VBO,   *)
(* or a version other than the mesh's), it deletes the old VAO of the      *)
(* current context and the old shared VBO and EBO, then calls mesh_upload; *)
(* on success the shared slot holds the new VBO and EBO with the mesh's    *)
(* version and the VAO slot holds the new VAO bound to these two ids.      *)
(***************************************************************************)
C7_Stale == glast.pre[1].vbo = 0 \/ glast.pre[1].version # glast.ver

C7_StaleMeshFullUpload ==
    (glast.op = "mesh_upload" /\ glast.pre # <<>> /\ C7_Stale) =>
        /\ glast.calls =
              (IF glast.pre[2].vao # 0 THEN <<<<"mesh_delete", glast.pre[2].vao>>>>
               ELSE <<>>)
              \o CallsOf("buffer_delete",
                         SelectSeq(<<glast.pre[1].vbo, glast.pre[1].ebo>>,
                                   LAMBDA b : b # 0))
              \o <<<<"mesh_upload">>>>
        /\ glast.ok =>
              /\ MeshDataNow.version = glast.ver
              /\ MeshDataNow.vbo # 0 /\ MeshDataNow.ebo # 0
              /\ {MeshDataNow.vbo, MeshDataNow.ebo} \subseteq gpu.gl.buffers
              /\ VaoSlotNow = [vao |-> glast.ret, bound_vbo |-> MeshDataNow.vbo,
                               bound_ebo |-> MeshDataNow.ebo]
              /\ glast.ret \in gpu.gl.vaos

\* a successful re-upload over old buffers and an old VAO
C7_Witness ==
    /\ glast.op = "mesh_upload"
    /\ glast.pre # <<>>
    /\ glast.pre[1].vbo # 0
    /\ glast.pre[1].version # glast.ver
    /\ glast.pre[2].vao # 0
    /\ glast.ok

(***************************************************************************)
(* tc_material_copy. The function reads the source through src_mat, a      *)
(* pointer taken before tc_material_create: when the create grows the pool *)
(* (realloc), the storage may have moved and the read is of freed memory.   *)
(* seen is the material that read yields.                                   *)
(***************************************************************************)
\* the loop of tc_material_copy over the copied phases from phase i on
RECURSIVE material_add_shader_refs(_, _, _)
material_add_shader_refs(phases, i, shreg) ==
    IF i > Len(phases) THEN shreg
    ELSE LET s == tc_shader_get(shreg, phases[i].shader)
         IN  material_add_shader_refs(phases, i + 1,
                 IF s # NULL THEN tc_shader_add_ref(shreg, s) ELSE shreg)

\* tc_material_copy without the tc_shader_add_ref of the copied phases
tc_material_copy_NoAddRef(reg, shreg, src, new_uuid, seen) ==
    LET src_mat == tc_material_get(reg, src)
    IN  IF src_mat = NULL
        THEN [reg |-> reg, shreg |-> shreg, h |-> TC_HANDLE_INVALID, log |-> "none"]
        ELSE IF reg.pool.data[src_mat].name = ""
        THEN [reg |-> reg, shreg |-> shreg, h |-> TC_HANDLE_INVALID, log |-> "error"]
        ELSE
        LET c       == tc_material_create(reg, new_uuid,
                                          reg.pool.data[src_mat].name \o "_copy")
            dst_mat == tc_material_get(c.reg, c.h)
        IN  IF dst_mat = NULL
            THEN [reg |-> c.reg, shreg |-> shreg, h |-> TC_HANDLE_INVALID, log |-> c.log]
            ELSE [reg   |-> [c.reg EXCEPT
                               !.pool.data[dst_mat].phases = seen.phases,
                               !.pool.data[dst_mat].texture_handles = seen.texture_handles],
                  shreg |-> shreg,
                  h     |-> c.h,
                  log   |-> c.log]

tc_material_copy(reg, shreg, src, new_uuid, seen) ==
    LET src_mat == tc_material_get(reg, src)
    IN  IF src_mat = NULL
        THEN [reg |-> reg, shreg |-> shreg, h |-> TC_HANDLE_INVALID, log |-> "none"]
        ELSE IF reg.pool.data[src_mat].name = ""
        THEN [reg |-> reg, shreg |-> shreg, h |-> TC_HANDLE_INVALID, log |-> "error"]
        ELSE
        LET c       == tc_material_create(reg, new_uuid,
                                          reg.pool.data[src_mat].name \o "_copy")
            dst_mat == tc_material_get(c.reg, c.h)
        IN  IF dst_mat = NULL
            THEN [reg |-> c.reg, shreg |-> shreg, h |-> TC_HANDLE_INVALID, log |-> c.log]
            ELSE [reg   |-> [c.reg EXCEPT
                               !.pool.data[dst_mat].phases = seen.phases,
                               !.pool.data[dst_mat].texture_handles = seen.texture_handles],
                  shreg |-> material_add_shader_refs(seen.phases, 1, shreg),
                  h     |-> c.h,
                  log   |-> c.log]

\* whether the tc_material_create inside tc_material_copy(src, new_uuid)
\* reallocates the pool
CopyGrows(reg, src, new_uuid) ==
    /\ tc_material_get(reg, src) # NULL
    /\ ~(new_uuid # "" /\ tc_material_contains(reg, new_uuid))
    /\ Len(reg.pool.free_list) = 0

\* what reading *src_mat can yield after the create: the source itself when
\* the storage did not move (and when the freed block still holds the old
\* bytes), otherwise whatever the freed block holds by then - here no
\* phases, or one phase naming some shader
SrcMatReads(reg, shreg, src, new_uuid) ==
    LET src_mat == tc_material_get(reg, src)
        item    == IF src_mat = NULL THEN ZeroMaterial ELSE reg.pool.data[src_mat]
    IN  IF ~CopyGrows(reg, src, new_uuid) THEN {item}
        ELSE {item, [item EXCEPT !.phases = <<>>]} \cup
             {[item EXCEPT !.phases = <<[ZeroPhase EXCEPT !.shader = sh]>>] :
                 sh \in LiveHandles(shreg)}

(***************************************************************************)
(* SpecMat: materials as the only holders of shaders. Clients create       *)
(* shaders and materials, attach and remove phases, copy materials and     *)
(* add_ref / release / destroy them; nobody else references a shader.      *)
(***************************************************************************)
MatQuota == 2           \* shaders, and materials, alive at most in SpecMat
MatMaxVersion == 3      \* add_phase / remove_phase are not called on a version that reached this
MatMaxRef == 1          \* tc_material_add_ref is not called on a ref_count that reached this

\* the last operation of SpecMat; for a copy: the source handle, the source
\* material and the shader registry before the call, whether the pool grew
MatNoOp == [op |-> "init", h |-> TC_HANDLE_INVALID, src |-> TC_HANDLE_INVALID, item |-> <<>>, shreg |-> <<>>, grew |-> FALSE]

MatInit ==
    /\ PoolIdle
    /\ GpuIdle
    /\ mesh = Uninitialized(ZeroMesh)
    /\ texture = Uninitialized(ZeroTexture)
    /\ shader = ShaderUninitialized
    /\ material = Uninitialized(ZeroMaterial)
    /\ focus = "material"
    /\ quota = MatQuota
    /\ rlast = MatNoOp

\* releasing a shader reference may free its slot: not once a generation
\* reached the bound
ShaderMayFree == \A i \in 0..(shader.pool.capacity - 1) : shader.pool.generations[i] < RegMaxGen

MatShaderCreate ==
    /\ \E uuid \in Uuids :
          /\ CanCreate(shader, uuid)
          /\ shader' = tc_shader_create(shader, uuid).reg
          /\ rlast' = MatNoOp
    /\ UNCHANGED <<poolVars, mesh, texture, material, focus, quota, gpuVars>>

MatCreate ==
    /\ \E uuid \in {"a"} :
          /\ CanCreate(material, uuid)
          /\ LET r == tc_material_create(material, uuid, "n")
             IN  /\ material' = r.reg
                 /\ rlast' = [MatNoOp EXCEPT !.h = r.h]
    /\ UNCHANGED <<poolVars, mesh, texture, shader, focus, quota, gpuVars>>

MatAddPhase ==
    /\ \E h \in Held(material), sh \in LiveHandles(shader) :
          LET ptr == tc_material_get(material, h)
          IN  /\ ptr # NULL => material.pool.data[ptr].version < MatMaxVersion
              /\ ptr # NULL => Len(material.pool.data[ptr].phases) < MaxPhases
              /\ \E r \in {tc_material_add_phase(material, shader, ptr, sh, "", 0)} :
                    /\ material' = r.reg
                    /\ shader' = r.shreg
                    /\ rlast' = [MatNoOp EXCEPT !.h = h]
    /\ UNCHANGED <<poolVars, mesh, texture, focus, quota, gpuVars>>

MatRemovePhase ==
    /\ \E h \in Held(material), index \in 0..MaxPhases :
          LET ptr == tc_material_get(material, h)
          IN  /\ ptr # NULL => material.pool.data[ptr].version < MatMaxVersion
              /\ ShaderMayFree
              /\ \E r \in {tc_material_remove_phase(material, shader, ptr, index)} :
                    /\ material' = r.reg
                    /\ shader' = r.shreg
                    /\ rlast' = [MatNoOp EXCEPT !.h = h]
    /\ UNCHANGED <<poolVars, mesh, texture, focus, quota, gpuVars>>

MatCopy ==
    /\ \E src \in Held(material), new_uuid \in Uuids :
          \E seen \in SrcMatReads(material, shader, src, new_uuid) :
          LET ptr == tc_material_get(material, src)
          IN  /\ ptr # NULL => CanCreate(material, new_uuid)
              /\ \E r \in {tc_material_copy(material, shader, src, new_uuid, seen)} :
                    /\ material' = r.reg
                    /\ shader' = r.shreg
                    /\ rlast' = [op |-> "copy", h |-> r.h, src |-> src,
                                 item |-> IF ptr = NULL THEN <<>> ELSE <<material.pool.data[ptr]>>,
                                 shreg |-> <<shader>>,
                                 grew |-> CopyGrows(material, src, new_uuid)]
    /\ UNCHANGED <<poolVars, mesh, texture, focus, quota, gpuVars>>

MatAddRef ==
    /\ \E h \in Held(material) :
          LET ptr == tc_material_get(material, h)
          IN  /\ ptr # NULL => material.pool.data[ptr].ref_count < MatMaxRef
              /\ material' = tc_material_add_ref(material, ptr)
              /\ rlast' = [MatNoOp EXCEPT !.h = h]
    /\ UNCHANGED <<poolVars, mesh, texture, shader, focus, quota, gpuVars>>

MatRelease ==
    /\ \E h \in Held(material) :
          /\ MayFree(material, h)
          /\ ShaderMayFree
          /\ \E r \in {tc_material_release(material, shader, tc_material_get(material, h))} :
                /\ material' = r.reg
                /\ shader' = r.shreg
                /\ rlast' = [MatNoOp EXCEPT !.h = h]
    /\ UNCHANGED <<poolVars, mesh, texture, focus, quota, gpuVars>>

MatDestroy ==
    /\ \E h \in Held(material) :
          /\ MayFree(material, h)
          /\ ShaderMayFree
          /\ \E r \in {tc_material_destroy(material, shader, h)} :
                /\ material' = r.reg
                /\ shader' = r.shreg
                /\ rlast' = [MatNoOp EXCEPT !.h = h]
    /\ UNCHANGED <<poolVars, mesh, texture, focus, quota, gpuVars>>

MatNext ==
    \/ MatShaderCreate \/ MatCreate \/ MatAddPhase \/ MatRemovePhase
    \/ MatCopy \/ MatAddRef \/ MatRelease \/ MatDestroy

SpecMat == MatInit /\ [][MatNext]_vars

(***************************************************************************)
(* C11: while materials are the only holders of shaders, the ref_count of  *)
(* every live shader equals the number of phases of live materials whose   *)
(* shader handle is the handle of that shader - whatever sequence of       *)
(* add_phase, remove_phase, copy, release and destroy produced the state.  *)
(***************************************************************************)
\* the (material slot, phase position) pairs of live materials that name sh
PhasesNaming(sh) ==
    {<<i, k>> \in (0..(material.pool.capacity - 1)) \X (1..TC_MATERIAL_MAX_PHASES) :
        /\ material.pool.states[i] = TC_SLOT_OCCUPIED
        /\ k <= Len(material.pool.data[i].phases)
        /\ material.pool.data[i].phases[k].shader = sh}

C11_RefCountCountsPhases ==
    \A sh \in LiveHandles(shader) :
        shader.pool.data[sh.index].ref_count = Cardinality(PhasesNaming(sh))

\* a shader held by two phases, one of them in a copy
C11_Witness ==
    /\ rlast.op = "copy"
    /\ ~tc_handle_is_invalid(rlast.h)
    /\ \E sh \in LiveHandles(shader) :
          /\ shader.pool.data[sh.index].ref_count >= 2
          /\ \E k \in 1..MaxPhases : <<rlast.h.index, k>> \in PhasesNaming(sh)

(***************************************************************************)
(* C12: a successful tc_material_copy(src, new_uuid) yields a new material *)
(* whose phases equal the phases of src, leaves src as it was, and takes   *)
(* one more reference on the shader of every copied phase: each shader a   *)
(* copied phase names is still valid, with its ref_count raised by the     *)
(* number of copied phases naming it, so that one of the two materials can *)
(* be destroyed without the other losing its shaders.                      *)
(***************************************************************************)
\* how many phases of the sequence name sh
CountNaming(phases, sh) == Cardinality({k \in 1..Len(phases) : phases[k].shader = sh})

C12_CopySharesShaders ==
    (rlast.op = "copy" /\ ~tc_handle_is_invalid(rlast.h)) =>
        LET src    == rlast.item[1]
            before == rlast.shreg[1]
            dst    == material.pool.data[rlast.h.index]
        IN  /\ tc_material_is_valid(material, rlast.h)
            /\ rlast.h # rlast.src
            /\ dst.phases = src.phases
            /\ tc_material_is_valid(material, rlast.src)
            /\ material.pool.data[rlast.src.index] = src
            /\ \A sh \in LiveHandles(before) :
                  /\ tc_shader_is_valid(shader, sh)
                  /\ shader.pool.data[sh.index].ref_count =
                        before.pool.data[sh.index].ref_count + CountNaming(src.phases, sh)
                  /\ CountNaming(src.phases, sh) > 0 =>
                        shader.pool.data[sh.index].ref_count >= 2

\* the same statement for the copies whose tc_material_create did not have
\* to grow the material pool
C12_CopyWithoutGrowth == rlast.grew \/ C12_CopySharesShaders

C12_CopiedPhases ==
    /\ rlast.op = "copy" /\ ~tc_handle_is_invalid(rlast.h) /\ ~rlast.grew
    /\ Len(rlast.item[1].phases) = 2

(***************************************************************************)
(* Shader registry: lookup by content hash, tc_shader_from_sources,        *)
(* tc_shader_get_or_create and the variant bookkeeping. For the sources of *)
(* tc_shader_from_sources "" is the NULL pointer.                          *)
(***************************************************************************)
tc_shader_find_by_hash(reg, source_hash) ==
    IF ~reg.initialized \/ source_hash = "" THEN TC_HANDLE_INVALID
    ELSE LET ptr   == tc_resource_map_get(reg.hash_to_index, source_hash)
             index == tc_unpack_index(ptr)
         IN  IF ~tc_has_index(ptr) THEN TC_HANDLE_INVALID
             ELSE IF index >= reg.pool.capacity THEN TC_HANDLE_INVALID
             ELSE IF reg.pool.states[index] # TC_SLOT_OCCUPIED THEN TC_HANDLE_INVALID
             ELSE [index |-> index, generation |-> reg.pool.generations[index]]

tc_shader_get_or_create(reg, uuid) ==
    IF uuid = "" THEN [reg |-> reg, h |-> TC_HANDLE_INVALID, log |-> "warn"]
    ELSE LET h == tc_shader_find(reg, uuid)
         IN  IF ~tc_handle_is_invalid(h) THEN [reg |-> reg, h |-> h, log |-> "none"]
             ELSE tc_shader_create(reg, uuid)

\* the tail shared by the two creating branches of tc_shader_from_sources
from_sources_create(reg, vertex_source, fragment_source, geometry_source, name, source_path, uuid) ==
    LET c == tc_shader_create(reg, uuid)
        s == tc_shader_set_sources(c.reg, tc_shader_get(c.reg, c.h), vertex_source,
                                   fragment_source, geometry_source, name, source_path)
    IN  IF tc_handle_is_invalid(c.h) THEN [reg |-> c.reg, h |-> c.h, log |-> c.log]
        ELSE IF ~s.ret
        THEN [reg |-> tc_shader_destroy(s.reg, c.h).reg, h |-> TC_HANDLE_INVALID,
              log |-> "none"]
        ELSE [reg |-> s.reg, h |-> c.h, log |-> "none"]

\* tc_shader_from_sources with the hash lookup of the uuid-less branch left out
tc_shader_from_sources_NoLookup(reg, vertex_source, fragment_source, geometry_source, name, source_path, uuid) ==
    IF vertex_source = "" \/ fragment_source = ""
    THEN [reg |-> reg, h |-> TC_HANDLE_INVALID, log |-> "error"]
    ELSE IF uuid # ""
    THEN LET existing == tc_shader_find(reg, uuid)
         IN  IF ~tc_handle_is_invalid(existing)
             THEN [reg |-> tc_shader_set_sources(reg, tc_shader_get(reg, existing),
                               vertex_source, fragment_source, geometry_source,
                               name, source_path).reg,
                   h |-> existing, log |-> "none"]
             ELSE from_sources_create(reg, vertex_source, fragment_source,
                                      geometry_source, name, source_path, uuid)
    ELSE from_sources_create(reg, vertex_source, fragment_source,
                             geometry_source, name, source_path, "")

tc_shader_from_sources(reg, vertex_source, fragment_source, geometry_source, name, source_path, uuid) ==
    IF vertex_source = "" \/ fragment_source = ""
    THEN [reg |-> reg, h |-> TC_HANDLE_INVALID, log |-> "error"]
    ELSE IF uuid # ""
    THEN LET existing == tc_shader_find(reg, uuid)
         IN  IF ~tc_handle_is_invalid(existing)
             THEN [reg |-> tc_shader_set_sources(reg, tc_shader_get(reg, existing),
                               vertex_source, fragment_source, geometry_source,
                               name, source_path).reg,
                   h |-> existing, log |-> "none"]
             ELSE from_sources_create(reg, vertex_source, fragment_source,
                                      geometry_source, name, source_path, uuid)
    ELSE LET hash     == tc_shader_compute_hash(vertex_source, fragment_source,
                                                geometry_source)
             existing == tc_shader_find_by_hash(reg, hash)
         IN  IF ~tc_handle_is_invalid(existing)
             THEN [reg |-> reg, h |-> existing, log |-> "none"]
             ELSE from_sources_create(reg, vertex_source, fragment_source,
                                      geometry_source, name, source_path, "")

tc_shader_set_variant_info(reg, shader_, original, op) ==
    IF shader_ = NULL THEN [reg |-> reg, log |-> "none"]
    ELSE LET orig == tc_shader_get(reg, original)
         IN  IF orig = NULL THEN [reg |-> reg, log |-> "warn"]
             ELSE [reg |-> [reg EXCEPT
                              !.pool.data[shader_].is_variant = 1,
                              !.pool.data[shader_].variant_op = op,
                              !.pool.data[shader_].original_handle = original,
                              !.pool.data[shader_].original_version =
                                  reg.pool.data[orig].version],
                   log |-> "none"]

\* tc_shader_variant_is_stale with a destroyed original taken for current
tc_shader_variant_is_stale_KeepOrphans(reg, variant) ==
    LET v == tc_shader_get(reg, variant)
    IN  IF v = NULL THEN FALSE
        ELSE IF reg.pool.data[v].is_variant = 0 THEN FALSE
        ELSE LET orig == tc_shader_get(reg, reg.pool.data[v].original_handle)
             IN  IF orig = NULL THEN FALSE
                 ELSE reg.pool.data[orig].version # reg.pool.data[v].original_version

tc_shader_variant_is_stale(reg, variant) ==
    LET v == tc_shader_get(reg, variant)
    IN  IF v = NULL THEN FALSE
        ELSE IF reg.pool.data[v].is_variant = 0 THEN FALSE
        ELSE LET orig == tc_shader_get(reg, reg.pool.data[v].original_handle)
             IN  IF orig = NULL THEN TRUE
                 ELSE reg.pool.data[orig].version # reg.pool.data[v].original_version

(***************************************************************************)
(* SpecSh: clients of the shader registry creating shaders by uuid and     *)
(* from sources, changing sources, marking variants and destroying.        *)
(***************************************************************************)
ShQuota == 2            \* shaders alive at most in SpecSh
ShMaxAuto == 2          \* auto-generated shader uuids in SpecSh
ShMaxVersion == 3       \* sources are not changed on a version that reached this
ShSources == {"", "s", "t"}   \* vertex sources; the fragment source is "f"

\* the last operation of SpecSh: its handle and arguments, the item found
\* for the uuid before the call (pre) and the pool count before it; again
\* says that the operation before it was the same uuid-less
\* tc_shader_from_sources call and prevh is what that call returned; noted
\* maps each marked variant to its original and the version the original
\* had at tc_shader_set_variant_info; was holds the variants stale before
ShNoOp == [op |-> "init", h |-> TC_HANDLE_INVALID, uuid |-> "", args |-> <<>>, pre |-> <<>>, count |-> 0, again |-> FALSE, prevh |-> TC_HANDLE_INVALID, noted |-> <<>>, was |-> {}]

ShInit ==
    /\ PoolIdle
    /\ GpuIdle
    /\ mesh = Uninitialized(ZeroMesh)
    /\ texture = Uninitialized(ZeroTexture)
    /\ shader = ShaderUninitialized
    /\ material = Uninitialized(ZeroMaterial)
    /\ focus = "shader"
    /\ quota = ShQuota
    /\ rlast = ShNoOp

\* the registry after a call stays within the bounds of the model
ShWithin(reg) ==
    /\ reg.pool.count <= quota
    /\ reg.pool.capacity <= MaxCapacity
    /\ reg.next_uuid <= ShMaxAuto + 1

StaleVariants(reg) == {h \in LiveHandles(reg) : tc_shader_variant_is_stale(reg, h)}

\* noted, without the variants that no longer exist in reg
Noted(reg, noted) == [h \in {k \in DOMAIN noted : tc_shader_is_valid(reg, k)} |-> noted[h]]

\* the result record of an operation that leaves the registry reg
ShLast(h, reg) == [ShNoOp EXCEPT !.h = h, !.noted = Noted(reg, rlast.noted)]

ShCreate ==
    /\ \E uuid \in Uuids :
          \E r \in {tc_shader_create(shader, uuid)} :
              /\ ShWithin(r.reg)
              /\ shader' = r.reg
              /\ rlast' = ShLast(r.h, r.reg)
    /\ UNCHANGED <<poolVars, mesh, texture, material, focus, quota, gpuVars>>

ShFromSources ==
    /\ \E v \in ShSources, uuid \in Uuids :
        \E r \in {tc_shader_from_sources(shader, v, "f", "", "", "", uuid)} :
          LET found == tc_shader_get(shader, tc_shader_find(shader, uuid))
          IN  /\ ShWithin(r.reg)
              /\ found # NULL => shader.pool.data[found].version < ShMaxVersion
              /\ shader' = r.reg
              /\ rlast' = [ShLast(r.h, r.reg) EXCEPT
                             !.op = "from_sources",
                             !.count = shader.pool.count,
                             !.uuid = uuid,
                             !.args = <<v, "f", "">>,
                             !.pre = IF found = NULL THEN <<>>
                                     ELSE <<shader.pool.data[found]>>,
                             !.again = /\ rlast.op = "from_sources"
                                       /\ rlast.uuid = "" /\ uuid = ""
                                       /\ rlast.args = <<v, "f", "">>,
                             !.prevh = rlast.h]
    /\ UNCHANGED <<poolVars, mesh, texture, material, focus, quota, gpuVars>>

ShSetSources ==
    /\ \E h \in Held(shader), v \in ShSources :
          LET ptr == tc_shader_get(shader, h)
          IN  /\ ptr # NULL => shader.pool.data[ptr].version < ShMaxVersion
              /\ \E r \in {tc_shader_set_sources(shader, ptr, v, "f", "", "", "")} :
                    /\ shader' = r.reg
                    /\ rlast' = [ShLast(h, r.reg) EXCEPT !.op = "set_sources",
                                                        !.was = StaleVariants(shader)]
    /\ UNCHANGED <<poolVars, mesh, texture, material, focus, quota, gpuVars>>

ShDestroy ==
    /\ \E h \in Held(shader) :
          /\ MayFree(shader, h)
          /\ \E r \in {tc_shader_destroy(shader, h)} :
                /\ shader' = r.reg
                /\ rlast' = ShLast(h, r.reg)
    /\ UNCHANGED <<poolVars, mesh, texture, material, focus, quota, gpuVars>>

ShSetVariantInfo ==
    /\ \E h \in Held(shader), original \in Held(shader) :
          LET ptr  == tc_shader_get(shader, h)
              orig == tc_shader_get(shader, original)
          IN  /\ h # original
              /\ \E r \in {tc_shader_set_variant_info(shader, ptr, original, 1)} :
                    LET mark == IF ptr # NULL /\ orig # NULL
                                THEN Put(rlast.noted, h,
                                         [original |-> original,
                                          version  |-> shader.pool.data[orig].version])
                                ELSE rlast.noted
                    IN  /\ shader' = r.reg
                        /\ rlast' = [ShLast(h, r.reg) EXCEPT !.noted = Noted(r.reg, mark)]
    /\ UNCHANGED <<poolVars, mesh, texture, material, focus, quota, gpuVars>>

ShNext == ShCreate \/ ShFromSources \/ ShSetSources \/ ShDestroy

SpecSh == ShInit /\ [][ShNext]_vars

\* SpecVar: the same clients marking shaders as variants of other shaders
VarNext == ShCreate \/ ShSetSources \/ ShDestroy \/ ShSetVariantInfo

SpecVar == ShInit /\ [][VarNext]_vars

(***************************************************************************)
(* C13: tc_shader_from_sources(v, f, g) without a uuid, called a second    *)
(* time right after a call with the same source strings, returns the       *)
(* handle the first call returned and creates no shader.                   *)
(***************************************************************************)
C13_SameSourcesSameHandle ==
    (rlast.op = "from_sources" /\ rlast.again) =>
        /\ rlast.h = rlast.prevh
        /\ shader.pool.count = rlast.count

\* the second of two such calls, returning a shader
C13_Witness ==
    /\ rlast.op = "from_sources" /\ rlast.again
    /\ tc_shader_is_valid(shader, rlast.h)
    /\ shader.pool.count = 2

(***************************************************************************)
(* C14: tc_shader_from_sources with non-NULL vertex and fragment sources   *)
(* and the uuid of an existing shader returns the handle of that shader;   *)
(* the shader's version is one more than before if the hash of the given   *)
(* sources differs from the hash stored in the shader, and is unchanged if *)
(* the two hashes are equal.                                               *)
(***************************************************************************)
C14_ExistingUuidUpdated ==
    (/\ rlast.op = "from_sources" /\ rlast.uuid # "" /\ rlast.pre # <<>>
     /\ rlast.args[1] # "" /\ rlast.args[2] # "") =>
        LET before == rlast.pre[1]
            hash   == tc_shader_compute_hash(rlast.args[1], rlast.args[2], rlast.args[3])
        IN  /\ rlast.h = [index |-> before.pool_index,
                          generation |-> shader.pool.generations[before.pool_index]]
            /\ tc_shader_is_valid(shader, rlast.h)
            /\ shader.pool.data[rlast.h.index].uuid = rlast.uuid
            /\ shader.pool.count = rlast.count
            /\ shader.pool.data[rlast.h.index].version =
                  IF hash # before.source_hash THEN before.version + 1
                  ELSE before.version

\* an update of an existing uuid with the sources it already has
C14_Witness ==
    /\ rlast.op = "from_sources" /\ rlast.uuid # "" /\ rlast.pre # <<>>
    /\ rlast.args[1] # ""
    /\ rlast.pre[1].source_hash =
          tc_shader_compute_hash(rlast.args[1], rlast.args[2], rlast.args[3])
    /\ rlast.pre[1].version = 2

\* an update of an existing uuid with other sources
C14_Changed ==
    /\ rlast.op = "from_sources" /\ rlast.uuid # "" /\ rlast.pre # <<>>
    /\ rlast.args[1] # ""
    /\ rlast.pre[1].source_hash # ""
    /\ shader.pool.data[rlast.h.index].version = rlast.pre[1].version + 1

(***************************************************************************)
(* C15: a live shader is marked as a variant exactly if                    *)
(* tc_shader_set_variant_info succeeded on it, and for a marked shader     *)
(* tc_shader_variant_is_stale is true iff the original named at the        *)
(* marking no longer exists or its version is beyond the version it had at *)
(* the marking. A change of the original's sources therefore turns the     *)
(* answer from false to true without a call on the variant.                *)
(***************************************************************************)
C15_StaleIffOriginalMoved ==
    \A h \in LiveHandles(shader) :
        /\ (shader.pool.data[h.index].is_variant = 1) <=> (h \in DOMAIN rlast.noted)
        /\ h \in DOMAIN rlast.noted =>
              LET original == rlast.noted[h].original
              IN  tc_shader_variant_is_stale(shader, h) <=>
                     \/ ~tc_shader_is_valid(shader, original)
                     \/ shader.pool.data[original.index].version > rlast.noted[h].version
        /\ ~(h \in DOMAIN rlast.noted) => ~tc_shader_variant_is_stale(shader, h)

\* tc_shader_set_sources on an original has just made its variant stale
C15_Witness ==
    /\ rlast.op = "set_sources"
    /\ \E h \in DOMAIN rlast.noted :
          /\ h # rlast.h
          /\ rlast.noted[h].original = rlast.h
          /\ tc_shader_is_valid(shader, rlast.h)
          /\ ~(h \in rlast.was)
          /\ tc_shader_variant_is_stale(shader, h)

\* the original of a variant was destroyed
C15_Orphan ==
    \E h \in DOMAIN rlast.noted :
        /\ tc_shader_is_valid(shader, h)
        /\ ~tc_shader_is_valid(shader, rlast.noted[h].original)

(***************************************************************************)
(* get_or_create of the mesh, texture and material registries (the shader  *)
(* one is above), and SpecLookup: the clients of SpecRef who also look     *)
(* resources up by uuid with get_or_create and give shaders their sources. *)
(***************************************************************************)
\* tc_mesh_get_or_create without the lookup of the uuid
tc_mesh_get_or_create_NoFind(reg, uuid) ==
    IF uuid = "" THEN [reg |-> reg, h |-> TC_HANDLE_INVALID, log |-> "warn"]
    ELSE LET h == TC_HANDLE_INVALID
         IN  IF ~tc_handle_is_invalid(h) THEN [reg |-> reg, h |-> h, log |-> "none"]
             ELSE tc_mesh_create(reg, uuid)

tc_mesh_get_or_create(reg, uuid) ==
    IF uuid = "" THEN [reg |-> reg, h |-> TC_HANDLE_INVALID, log |-> "warn"]
    ELSE LET h == tc_mesh_find(reg, uuid)
         IN  IF ~tc_handle_is_invalid(h) THEN [reg |-> reg, h |-> h, log |-> "none"]
             ELSE tc_mesh_create(reg, uuid)

tc_texture_get_or_create(reg, uuid) ==
    IF uuid = "" THEN [reg |-> reg, h |-> TC_HANDLE_INVALID, log |-> "warn"]
    ELSE LET h == tc_texture_find(reg, uuid)
         IN  IF ~tc_handle_is_invalid(h) THEN [reg |-> reg, h |-> h, log |-> "none"]
             ELSE tc_texture_create(reg, uuid)

tc_material_get_or_create(reg, uuid, name) ==
    IF uuid = "" THEN [reg |-> reg, h |-> TC_HANDLE_INVALID, log |-> "warn"]
    ELSE LET h == tc_material_find(reg, uuid)
         IN  IF ~tc_handle_is_invalid(h) THEN [reg |-> reg, h |-> h, log |-> "none"]
             ELSE tc_material_create(reg, uuid, name)

\* the registry after a get_or_create stays within the bounds of the model
LookupWithin(reg) == reg.pool.count <= quota /\ reg.pool.capacity <= MaxCapacity

\* the result record of a get_or_create that returned r
Looked(uuid, r, before) ==
    [NoOp EXCEPT !.op = "get_or_create", !.h = r.h, !.uuid = uuid,
                 !.ret = ~tc_handle_is_invalid(r.h), !.log = r.log,
                 !.same = (r.reg = before)]

MeshGetOrCreate ==
    /\ focus = "mesh"
    /\ \E uuid \in Uuids :
          \E r \in {tc_mesh_get_or_create(mesh, uuid)} :
              /\ LookupWithin(r.reg)
              /\ mesh' = r.reg
              /\ rlast' = Looked(uuid, r, mesh)
    /\ UNCHANGED <<poolVars, texture, shader, material, focus, quota, gpuVars>>

TextureGetOrCreate ==
    /\ focus = "texture"
    /\ \E uuid \in Uuids :
          \E r \in {tc_texture_get_or_create(texture, uuid)} :
              /\ LookupWithin(r.reg)
              /\ texture' = r.reg
              /\ rlast' = Looked(uuid, r, texture)
    /\ UNCHANGED <<poolVars, mesh, shader, material, focus, quota, gpuVars>>

ShaderGetOrCreate ==
    /\ focus = "shader"
    /\ \E uuid \in Uuids :
          \E r \in {tc_shader_get_or_create(shader, uuid)} :
              /\ LookupWithin(r.reg)
              /\ shader' = r.reg
              /\ rlast' = Looked(uuid, r, shader)
    /\ UNCHANGED <<poolVars, mesh, texture, material, focus, quota, gpuVars>>

MaterialGetOrCreate ==
    /\ focus = "material"
    /\ \E uuid \in Uuids :
          \E r \in {tc_material_get_or_create(material, uuid, "n")} :
              /\ LookupWithin(r.reg)
              /\ material' = r.reg
              /\ rlast' = Looked(uuid, r, material)
    /\ UNCHANGED <<poolVars, mesh, texture, shader, focus, quota, gpuVars>>

\* tc_material_create with the name it requires
MaterialCreateNamed ==
    /\ focus = "material"
    /\ \E uuid \in Uuids :
          /\ CanCreate(material, uuid)
          /\ LET r == tc_material_create(material, uuid, "n")
             IN  /\ material' = r.reg
                 /\ rlast' = [NoOp EXCEPT !.op = "create", !.h = r.h, !.uuid = uuid,
                                          !.ret = ~tc_handle_is_invalid(r.h),
                                          !.log = r.log, !.same = (r.reg = material)]
    /\ UNCHANGED <<poolVars, mesh, texture, shader, focus, quota, gpuVars>>

\* tc_shader_set_sources on a shader that has no sources yet
ShaderGiveSources ==
    /\ focus = "shader"
    /\ \E h \in Held(shader) :
          LET ptr == tc_shader_get(shader, h)
          IN  /\ ptr # NULL => shader.pool.data[ptr].source_hash = ""
              /\ \E r \in {tc_shader_set_sources(shader, ptr, "s", "f", "", "", "")} :
                    /\ shader' = r.reg
                    /\ rlast' = Last("set_sources", shader, h, r.ret, "none", r.reg)
    /\ UNCHANGED <<poolVars, mesh, texture, material, focus, quota, gpuVars>>

LookupNext ==
    \/ MeshCreate \/ MeshAddRef \/ MeshRelease \/ MeshDestroy
    \/ TextureCreate \/ TextureAddRef \/ TextureRelease \/ TextureDestroy
    \/ (focus = "shader" /\ ShaderCreate)
    \/ ShaderAddRef \/ ShaderRelease \/ ShaderDestroy
    \/ MaterialCreateNamed \/ MaterialAddRef \/ MaterialRelease \/ MaterialDestroy
    \/ MeshGetOrCreate \/ TextureGetOrCreate \/ ShaderGetOrCreate
    \/ MaterialGetOrCreate \/ ShaderGiveSources

SpecLookup == RefInit /\ [][LookupNext]_vars

\* the handles of the live resources of reg whose uuid is uuid
Owners(reg, uuid) == {h \in LiveHandles(reg) : reg.pool.data[h.index].uuid = uuid}

\* find, contains and create of the registry the behaviour works on
KindFind(reg, uuid) ==
    CASE focus = "mesh" -> tc_mesh_find(reg, uuid)
      [] focus = "shader" -> tc_shader_find(reg, uuid)
      [] focus = "texture" -> tc_texture_find(reg, uuid)
      [] OTHER -> tc_material_find(reg, uuid)

KindContains(reg, uuid) ==
    CASE focus = "mesh" -> tc_mesh_contains(reg, uuid)
      [] focus = "shader" -> tc_shader_contains(reg, uuid)
      [] focus = "texture" -> tc_texture_contains(reg, uuid)
      [] OTHER -> tc_material_contains(reg, uuid)

KindCreate(reg, uuid) ==
    CASE focus = "mesh" -> tc_mesh_create(reg, uuid)
      [] focus = "shader" -> tc_shader_create(reg, uuid)
      [] focus = "texture" -> tc_texture_create(reg, uuid)
      [] OTHER -> tc_material_create(reg, uuid, "n")

(***************************************************************************)
(* C16: in every registry, get_or_create(uuid) with a non-empty uuid       *)
(* returns a valid handle of a resource with that uuid, the only one with  *)
(* that uuid; when a resource with the uuid exists already (an earlier     *)
(* get_or_create or create made it and it was not destroyed since) the     *)
(* call returns the handle of that resource, same index and generation,    *)
(* and changes nothing in the registry.                                    *)
(***************************************************************************)
C16_SecondLookup ==
    (rlast'.op = "get_or_create" /\ rlast'.uuid # "") =>
        /\ Owners(Reg', rlast'.uuid) = {rlast'.h}
        /\ Owners(Reg, rlast'.uuid) # {} =>
              /\ Owners(Reg, rlast'.uuid) = {rlast'.h}
              /\ Reg' = Reg

C16_GetOrCreateTwice == [][C16_SecondLookup]_vars

\* a get_or_create that found the resource an earlier one made
C16_Witness ==
    /\ rlast.op = "get_or_create" /\ rlast.uuid # ""
    /\ rlast.same /\ rlast.ret
    /\ Reg.pool.count = 2

(***************************************************************************)
(* C17: destroy(h) on a valid handle returns true; afterwards h is         *)
(* invalid, find(uuid) and contains(uuid) do not report the resource, no   *)
(* live resource has the uuid, for a shader find_by_hash of its hash does  *)
(* not lead to its slot, and create(uuid) with the same uuid succeeds with *)
(* a handle different from h.                                              *)
(***************************************************************************)
C17_DestroyUnregisters ==
    (rlast.op = "destroy" /\ rlast.rc # NULL) =>
        LET again == KindCreate(Reg, rlast.uuid)
        IN  /\ rlast.ret = TRUE
            /\ ~tc_pool_is_valid(Reg.pool, rlast.h)
            /\ tc_handle_is_invalid(KindFind(Reg, rlast.uuid))
            /\ ~KindContains(Reg, rlast.uuid)
            /\ Owners(Reg, rlast.uuid) = {}
            /\ focus = "shader" =>
                  tc_shader_find_by_hash(shader,
                      shader.pool.data[rlast.h.index].source_hash).index # rlast.h.index
            /\ ~tc_handle_is_invalid(again.h)
            /\ again.h # rlast.h
            /\ Owners(again.reg, rlast.uuid) = {again.h}

\* a shader with sources was destroyed while another shader lives
C17_Witness ==
    /\ rlast.op = "destroy" /\ rlast.rc # NULL
    /\ focus = "shader"
    /\ shader.pool.data[rlast.h.index].source_hash # ""
    /\ shader.pool.count = 1

(***************************************************************************)
(* C18: create(uuid) with a uuid that a live resource of the registry      *)
(* already has returns the invalid handle, logs a warning and leaves the   *)
(* registry as it was (same count, the existing resource and its handle    *)
(* untouched).                                                             *)
(***************************************************************************)
C18_DuplicateStep ==
    (rlast'.op = "create" /\ rlast'.uuid # "" /\ Owners(Reg, rlast'.uuid) # {}) =>
        /\ tc_handle_is_invalid(rlast'.h)
        /\ rlast'.log = "warn"
        /\ Reg' = Reg

C18_DuplicateCreateRejected == [][C18_DuplicateStep]_vars

\* a create that was rejected for its uuid
C18_Witness ==
    /\ rlast.op = "create" /\ rlast.uuid # ""
    /\ ~rlast.ret /\ rlast.log = "warn" /\ rlast.same
    /\ Owners(Reg, rlast.uuid) # {}

(***************************************************************************)
(* SpecGroup: clients taking share groups by key, adding and dropping       *)
(* references, creating and freeing contexts on them, and uploading the     *)
(* resources of one registry (focus) so that the groups' slots hold GL ids. *)
(* SpecCtx is the same program whose clients never call the share-group     *)
(* functions themselves: every group is obtained through                    *)
(* tc_gpu_context_new.                                                      *)
(***************************************************************************)
GrpMaxGroups == 2       \* addresses calloc can return for share groups in SpecGroup, SpecCtx
GrpMaxCtx == 2          \* addresses calloc can return for contexts in SpecGroup, SpecCtx
GrpMaxRef == 3          \* no reference is added to a group whose refcount reached this
GrpMaxVersion == 2      \* a mutator is not called on a version that reached this in SpecGroup, SpecCtx

GrpKeys == {1, 2}

\* the contexts whose share_group is group
ContextsOf(g, group) == {c \in DOMAIN g.contexts : g.contexts[c].share_group = group}

\* glast after a tc_gpu_share_group_unref or tc_gpu_context_free of these
\* specifications: the group it released, the group as it was before the
\* call, and the vtable calls made
Released(op, group, calls) ==
    [op |-> op, h |-> TC_HANDLE_INVALID, group |-> group, before |-> gpu.groups[group],
     calls |-> calls]

GrpInit == GpuInit

GrpGetOrCreate ==
    /\ \E key \in GrpKeys :
          LET gaddr == Calloc(DOMAIN gpu.groups, GrpMaxGroups)
          IN  /\ ~KeyFound(gpu, key) => gaddr # NULL
              /\ \E r \in {tc_gpu_share_group_get_or_create(gpu, key, gaddr)} :
                    /\ r.ret # NULL
                    /\ r.gpu.groups[r.ret].refcount <= GrpMaxRef
                    /\ gpu' = r.gpu
                    /\ glast' = NoGpuOp
    /\ UNCHANGED <<poolVars, regVars, uploaded>>

GrpRef ==
    /\ \E group \in DOMAIN gpu.groups :
          /\ gpu.groups[group].refcount < GrpMaxRef
          /\ gpu' = tc_gpu_share_group_ref(gpu, group).gpu
          /\ glast' = NoGpuOp
    /\ UNCHANGED <<poolVars, regVars, uploaded>>

\* a client drops a reference it holds: one that is not a context's
GrpUnref ==
    /\ \E group \in DOMAIN gpu.groups :
          /\ gpu.groups[group].refcount > Cardinality(ContextsOf(gpu, group))
          /\ \E r \in {tc_gpu_share_group_unref(gpu, group)} :
                /\ gpu' = r.gpu
                /\ glast' = Released("unref", group, r.calls)
    /\ UNCHANGED <<poolVars, regVars, uploaded>>

GrpContextNew ==
    /\ \E key \in GrpKeys, group \in {NULL} \cup DOMAIN gpu.groups :
          LET caddr == Calloc(DOMAIN gpu.contexts, GrpMaxCtx)
              gaddr == Calloc(DOMAIN gpu.groups, GrpMaxGroups)
          IN  /\ caddr # NULL
              /\ (group = NULL /\ ~KeyFound(gpu, key)) => gaddr # NULL
              /\ \E r \in {tc_gpu_context_new(gpu, key, group, caddr, gaddr)} :
                    /\ r.ret # NULL
                    /\ r.gpu.groups[r.gpu.contexts[r.ret].share_group].refcount <= GrpMaxRef
                    /\ gpu' = r.gpu
                    /\ glast' = NoGpuOp
    /\ UNCHANGED <<poolVars, regVars, uploaded>>

\* a context made on a group the client holds
GrpContextOn ==
    /\ \E key \in CtxKeys, group \in DOMAIN gpu.groups :
          LET caddr == Calloc(DOMAIN gpu.contexts, GrpMaxCtx)
          IN  /\ caddr # NULL
              /\ gpu.groups[group].refcount < GrpMaxRef
              /\ \E r \in {tc_gpu_context_new(gpu, key, group, caddr, NULL)} :
                    /\ gpu' = r.gpu
                    /\ glast' = NoGpuOp
    /\ UNCHANGED <<poolVars, regVars, uploaded>>

GrpContextFree ==
    /\ \E ctx \in DOMAIN gpu.contexts :
          \E r \in {tc_gpu_context_free(gpu, ctx)} :
              /\ gpu' = r.gpu
              /\ glast' = Released("context_free", gpu.contexts[ctx].share_group, r.calls)
    /\ UNCHANGED <<poolVars, regVars, uploaded>>

\* tc_ensure_default_gpu_context makes the default context on key 0
GrpEnsureDefault ==
    /\ gpu.g_current_gpu_context = NULL
    /\ LET caddr == Calloc(DOMAIN gpu.contexts, GrpMaxCtx)
           gaddr == Calloc(DOMAIN gpu.groups, GrpMaxGroups)
       IN  \E r \in {tc_ensure_default_gpu_context(gpu, caddr, gaddr)} :
               LET made == gpu.g_default_gpu_context = NULL
               IN  /\ made => caddr # NULL
                   /\ (made /\ ~KeyFound(gpu, 0)) => gaddr # NULL
                   /\ gpu' = r
                   /\ glast' = NoGpuOp
    /\ UNCHANGED <<poolVars, regVars, uploaded>>

\* the mutators that give a resource something to upload
GrpTextureSetData ==
    /\ focus = "texture"
    /\ \E h \in LiveHandles(texture) :
          LET ptr == tc_texture_get(texture, h)
          IN  /\ texture.pool.data[ptr].version < GrpMaxVersion
              /\ texture' = tc_texture_set_data(texture, ptr, "px", 1, 1, 4,
                                                "", "", FALSE).reg
              /\ rlast' = [NoOp EXCEPT !.h = h]
              /\ glast' = NoGpuOp
    /\ UNCHANGED <<poolVars, mesh, shader, material, focus, quota, gpu, uploaded>>

GrpShaderSetSources ==
    /\ focus = "shader"
    /\ \E h \in LiveHandles(shader) :
          LET ptr == tc_shader_get(shader, h)
          IN  /\ shader.pool.data[ptr].version < GrpMaxVersion
              /\ shader' = tc_shader_set_sources(shader, ptr, "s", "s", "", "", "").reg
              /\ rlast' = [NoOp EXCEPT !.h = h]
              /\ glast' = NoGpuOp
    /\ UNCHANGED <<poolVars, mesh, texture, material, focus, quota, gpu, uploaded>>

GrpMeshSetVertices ==
    /\ focus = "mesh"
    /\ \E h \in LiveHandles(mesh) :
          LET ptr == tc_mesh_get(mesh, h)
          IN  /\ mesh.pool.data[ptr].version < GrpMaxVersion
              /\ mesh' = tc_mesh_set_vertices(mesh, ptr, "v", 1,
                                              <<[stride |-> 12]>>, FALSE).reg
              /\ rlast' = [NoOp EXCEPT !.h = h]
              /\ glast' = NoGpuOp
    /\ UNCHANGED <<poolVars, texture, shader, material, focus, quota, gpu, uploaded>>

GrpTextureUpload ==
    /\ focus = "texture"
    /\ CurrentOk
    /\ \E h \in LiveHandles(texture), gpu_id \in {0} \cup GlIds :
          \E r \in {tc_texture_upload_gpu(gpu, texture, tc_texture_get(texture, h), gpu_id)} :
              /\ r.env
              /\ gpu' = r.gpu
              /\ glast' = NoGpuOp
    /\ UNCHANGED <<poolVars, regVars, uploaded>>

GrpShaderCompile ==
    /\ focus = "shader"
    /\ CurrentOk
    /\ \E h \in LiveHandles(shader), program \in {0} \cup GlIds :
          \E r \in {tc_shader_compile_gpu(gpu, shader, tc_shader_get(shader, h), program)} :
              /\ r.env
              /\ gpu' = r.gpu
              /\ glast' = NoGpuOp
    /\ UNCHANGED <<poolVars, regVars, uploaded>>

GrpMeshUpload ==
    /\ focus = "mesh"
    /\ CurrentOk
    /\ \E h \in LiveHandles(mesh), out \in MeshOuts :
          \E r \in {tc_mesh_upload_gpu(gpu, mesh, tc_mesh_get(mesh, h), out)} :
              /\ r.env
              /\ gpu' = r.gpu
              /\ glast' = NoGpuOp
    /\ UNCHANGED <<poolVars, regVars, uploaded>>

CtxNext ==
    \/ GpuSetOps \/ GrpContextNew \/ GrpContextFree \/ GpuSetContext \/ GrpEnsureDefault
    \/ GpuTextureCreate \/ GrpTextureSetData \/ GrpTextureUpload
    \/ GpuShaderCreate \/ GrpShaderSetSources \/ GrpShaderCompile
    \/ GpuMeshCreate \/ GrpMeshSetVertices \/ GrpMeshUpload

SpecCtx == GrpInit /\ [][CtxNext]_vars

GrpNext ==
    \/ GrpGetOrCreate \/ GrpRef \/ GrpUnref
    \/ GpuSetOps \/ GrpContextOn \/ GrpContextFree \/ GpuSetContext
    \/ GpuTextureCreate \/ GrpTextureSetData \/ GrpTextureUpload
    \/ GpuShaderCreate \/ GrpShaderSetSources \/ GrpShaderCompile
    \/ GpuMeshCreate \/ GrpMeshSetVertices \/ GrpMeshUpload

SpecGroup == GrpInit /\ [][GrpNext]_vars

\* the non-zero GL ids a share group's slot arrays hold
TextureIds(G) == {G.textures[i].gl_id : i \in DOMAIN G.textures} \ {0}
ShaderIds(G) == {G.shaders[i].gl_id : i \in DOMAIN G.shaders} \ {0}
BufferIds(G) == ({G.mesh_data[i].vbo : i \in DOMAIN G.mesh_data} \cup {G.mesh_data[i].ebo : i \in DOMAIN G.mesh_data}) \ {0}

Registered(g, group) == {i \in 1..Len(g.g_registry) : g.g_registry[i] = group}

GroupCalls == {"texture_delete", "shader_delete", "buffer_delete"}

(***************************************************************************)
(* C19: a share group is destroyed exactly when its refcount reaches zero. *)
(* A release (tc_gpu_share_group_unref, directly or from                   *)
(* tc_gpu_context_free) of a group whose refcount was 1 deletes every      *)
(* non-zero texture, shader and buffer id of its slots through the vtable, *)
(* takes the group out of the registry and frees it; a release at a higher *)
(* refcount only decrements it and makes no delete call for the group.     *)
(* Every group that is not freed is registered once with refcount > 0, and *)
(* the registry holds no freed group.                                      *)
(***************************************************************************)
C19_GroupDestroyedAtZero ==
    /\ \A i \in 1..Len(gpu.g_registry) : gpu.g_registry[i] \in DOMAIN gpu.groups
    /\ \A group \in DOMAIN gpu.groups :
          /\ Cardinality(Registered(gpu, group)) = 1
          /\ gpu.groups[group].refcount > 0
    /\ glast.op \in {"unref", "context_free"} =>
          LET G == glast.before
              made == {c \in Range(glast.calls) : c[1] \in GroupCalls}
          IN  IF G.refcount = 1
              THEN /\ glast.group \notin DOMAIN gpu.groups
                   /\ Registered(gpu, glast.group) = {}
                   /\ made = ({"texture_delete"} \X TextureIds(G))
                             \cup ({"shader_delete"} \X ShaderIds(G))
                             \cup ({"buffer_delete"} \X BufferIds(G))
                   /\ gpu.gl.textures \cap TextureIds(G) = {}
                   /\ gpu.gl.programs \cap ShaderIds(G) = {}
                   /\ gpu.gl.buffers \cap BufferIds(G) = {}
              ELSE /\ glast.group \in DOMAIN gpu.groups
                   /\ gpu.groups[glast.group] = [G EXCEPT !.refcount = @ - 1]
                   /\ made = {}

\* the last reference of a group holding GL ids was dropped
C19_Witness ==
    /\ glast.op \in {"unref", "context_free"}
    /\ glast.before.refcount = 1
    /\ TextureIds(glast.before) \cup ShaderIds(glast.before) \cup BufferIds(glast.before) # {}
    /\ glast.group \notin DOMAIN gpu.groups

\* a reference was dropped from a group that holds GL ids and lives on
C19_Survives ==
    /\ glast.op \in {"unref", "context_free"}
    /\ glast.before.refcount > 1
    /\ TextureIds(glast.before) \cup ShaderIds(glast.before) \cup BufferIds(glast.before) # {}

(***************************************************************************)
(* C20: tc_gpu_context_free always unrefs the context's share group, so    *)
(* when every group is obtained through tc_gpu_context_new (SpecCtx) a     *)
(* group's refcount is the number of contexts not yet freed whose          *)
(* share_group it is: no context's group is freed before the context, and  *)
(* no group outlives its last context. Freeing a context takes one         *)
(* reference from its group, which is freed then iff that was the last.    *)
(***************************************************************************)
C20_RefcountCountsContexts ==
    /\ \A c \in DOMAIN gpu.contexts : gpu.contexts[c].share_group \in DOMAIN gpu.groups
    /\ \A group \in DOMAIN gpu.groups :
          /\ gpu.groups[group].refcount = Cardinality(ContextsOf(gpu, group))
          /\ ContextsOf(gpu, group) # {}
    /\ glast.op = "context_free" =>
          IF glast.before.refcount = 1
          THEN glast.group \notin DOMAIN gpu.groups
          ELSE /\ glast.group \in DOMAIN gpu.groups
               /\ gpu.groups[glast.group].refcount = glast.before.refcount - 1

\* one of two contexts sharing a group was freed; the group lives on with the other
C20_Witness ==
    /\ glast.op = "context_free"
    /\ glast.before.refcount = 2
    /\ glast.group \in DOMAIN gpu.groups
    /\ Cardinality(ContextsOf(gpu, glast.group)) = 1

\* the last context of a group was freed
C20_LastContext ==
    /\ glast.op = "context_free"
    /\ glast.before.refcount = 1
    /\ glast.group \notin DOMAIN gpu.groups
    /\ gpu.contexts # <<>>

(***************************************************************************)
(* SpecFull: clients taking share groups by key until the registry is full. *)
(* Keys are opaque: a client asks for one of the first FullShared keys,     *)
(* which clients share, or for the lowest key no group has; groups are      *)
(* released from the end of the registry.                                   *)
(***************************************************************************)
FullShared == 2         \* keys that are asked for again while registered in SpecFull
FullMaxRef == 3         \* no reference is added to a group whose refcount reached this in SpecFull

FullAddrs == TC_MAX_SHARE_GROUPS + 1

RegisteredKeys(g) == {g.groups[g.g_registry[i]].key : i \in 1..Len(g.g_registry)}

FullKeys(g) ==
    LET unused == (1..FullAddrs) \ RegisteredKeys(g)
    IN  (1..FullShared) \cup {k \in unused : \A j \in unused : k <= j}

\* glast after a tc_gpu_share_group_get_or_create of SpecFull: the key asked
\* for, the pointer returned and the state before the call
Taken(key, ret) ==
    [op |-> "get_or_create", h |-> TC_HANDLE_INVALID, key |-> key, ret |-> ret,
     before |-> gpu]

FullGetOrCreate ==
    /\ \E key \in FullKeys(gpu) :
          LET gaddr == Calloc(DOMAIN gpu.groups, FullAddrs)
          IN  /\ gaddr # NULL
              /\ \E r \in {tc_gpu_share_group_get_or_create(gpu, key, gaddr)} :
                    /\ r.ret # NULL => r.gpu.groups[r.ret].refcount <= FullMaxRef
                    /\ gpu' = r.gpu
                    /\ glast' = Taken(key, r.ret)
    /\ UNCHANGED <<poolVars, regVars, uploaded>>

FullUnref ==
    /\ gpu.g_registry # <<>>
    /\ gpu' = tc_gpu_share_group_unref(gpu, gpu.g_registry[Len(gpu.g_registry)]).gpu
    /\ glast' = NoGpuOp
    /\ UNCHANGED <<poolVars, regVars, uploaded>>

FullInit ==
    /\ PoolIdle
    /\ RegIdle
    /\ GpuIdle

FullNext == FullGetOrCreate \/ FullUnref

SpecFull == FullInit /\ [][FullNext]_vars

(***************************************************************************)
(* C21: tc_gpu_share_group_get_or_create(key) returns the first registered *)
(* group with that key and adds one to its refcount, nothing else changing; *)
(* with no such group and fewer than 16 groups registered it allocates a    *)
(* group with the key and refcount 1 and registers it last; with 16 groups  *)
(* registered it returns NULL and changes nothing.                          *)
(***************************************************************************)
C21_GetOrCreateByKey ==
    glast.op = "get_or_create" =>
        LET B == glast.before
            found == {i \in 1..Len(B.g_registry) : B.groups[B.g_registry[i]].key = glast.key}
        IN  IF found # {}
            THEN /\ glast.ret = B.g_registry[CHOOSE i \in found : \A j \in found : i <= j]
                 /\ gpu = [B EXCEPT !.groups[glast.ret].refcount = @ + 1]
            ELSE IF Len(B.g_registry) < TC_MAX_SHARE_GROUPS
            THEN /\ glast.ret # NULL
                 /\ glast.ret \notin DOMAIN B.groups
                 /\ gpu.g_registry = Append(B.g_registry, glast.ret)
                 /\ DOMAIN gpu.groups = DOMAIN B.groups \cup {glast.ret}
                 /\ \A group \in DOMAIN B.groups : gpu.groups[group] = B.groups[group]
                 /\ gpu.groups[glast.ret].key = glast.key
                 /\ gpu.groups[glast.ret].refcount = 1
                 /\ [gpu EXCEPT !.groups = B.groups, !.g_registry = B.g_registry] = B
            ELSE /\ glast.ret = NULL
                 /\ gpu = B

\* a key with no group was asked for while 16 groups were registered
C21_Witness ==
    /\ glast.op = "get_or_create"
    /\ glast.ret = NULL
    /\ Len(glast.before.g_registry) = TC_MAX_SHARE_GROUPS
    /\ glast.key \notin RegisteredKeys(glast.before)

\* a registered key was asked for again
C21_Found ==
    /\ glast.op = "get_or_create"
    /\ glast.key \in RegisteredKeys(glast.before)
    /\ gpu.groups[glast.ret].refcount = glast.before.groups[glast.ret].refcount + 1

(***************************************************************************)
(* tc_mesh_draw_gpu: uploads the mesh or rebuilds the VAO when needed and   *)
(* draws the current context's VAO. out is what the driver returns if the   *)
(* upload reaches the vtable.                                               *)
(***************************************************************************)
tc_mesh_draw_gpu(g, reg, mesh_, out) ==
    LET NoOut == out.vao = 0 /\ out.vbo = 0 /\ out.ebo = 0
        ctx == tc_gpu_get_context(g)
    IN  IF mesh_ = NULL \/ ctx = NULL THEN [gpu |-> g, calls |-> <<>>, env |-> NoOut]
        ELSE LET item  == reg.pool.data[mesh_]
                 index == item.pool_index
                 group == g.contexts[ctx].share_group
                 g1    == tc_gpu_context_vao_slot(
                              tc_gpu_share_group_mesh_data_slot(g, group, index),
                              ctx, index)
             IN  IF group = NULL THEN [gpu |-> g1, calls |-> <<>>, env |-> NoOut]
                 ELSE LET shared   == MeshDataOf(g1, ctx, index)
                          vao_slot == VaoSlotOf(g1, ctx, index)
                          data_stale == shared.vbo = 0 \/ shared.version # item.version
                          need == \/ data_stale
                                  \/ vao_slot.vao = 0
                                  \/ vao_slot.bound_vbo # shared.vbo
                                  \/ vao_slot.bound_ebo # shared.ebo
                          r == IF need THEN tc_mesh_upload_gpu(g1, reg, mesh_, out)
                               ELSE [gpu |-> g1, ret |-> vao_slot.vao, calls |-> <<>>,
                                     failed |-> FALSE, env |-> NoOut]
                          vao == VaoSlotOf(r.gpu, ctx, index).vao
                      IN  IF r.ret = 0 \/ vao = 0 \/ ~Has(tgfx_gpu_get_ops(g), "mesh_draw")
                          THEN [gpu |-> r.gpu, calls |-> r.calls, env |-> r.env]
                          ELSE [gpu |-> r.gpu,
                                calls |-> Append(r.calls, <<"mesh_draw", vao>>),
                                env |-> r.env]

(***************************************************************************)
(* SpecVao: contexts of one share group uploading, drawing and deleting the *)
(* GPU side of meshes, each with the context current at the time.           *)
(***************************************************************************)
\* glast after a mesh operation of SpecVao: the context that was current,
\* all contexts as they were before the call, the VAO slot of the mesh in the
\* current context before the call, and the vtable calls made
VaoOp(op, h, r) ==
    LET cur == gpu.g_current_gpu_context
        g1  == tc_gpu_context_vao_slot(gpu, cur, h.index)
    IN  [op |-> op, h |-> h, ctx |-> cur, index |-> h.index, calls |-> r.calls,
         before |-> gpu.contexts,
         slot |-> IF cur = NULL THEN FreshVao ELSE VaoSlotOf(g1, cur, h.index)]

VaoInit ==
    /\ GpuInit
    /\ focus = "mesh"

VaoMeshUpload ==
    /\ CurrentOk
    /\ \E h \in LiveHandles(mesh), out \in MeshOuts :
        \E r \in {tc_mesh_upload_gpu(gpu, mesh, tc_mesh_get(mesh, h), out)} :
          /\ r.env
          /\ gpu' = r.gpu
          /\ glast' = VaoOp("mesh_upload", h, r)
    /\ UNCHANGED <<poolVars, regVars, uploaded>>

VaoMeshDraw ==
    /\ CurrentOk
    /\ \E h \in LiveHandles(mesh), out \in MeshOuts :
        \E r \in {tc_mesh_draw_gpu(gpu, mesh, tc_mesh_get(mesh, h), out)} :
          /\ r.env
          /\ gpu' = r.gpu
          /\ glast' = VaoOp("mesh_draw", h, r)
    /\ UNCHANGED <<poolVars, regVars, uploaded>>

VaoMeshDelete ==
    /\ CurrentOk
    /\ \E h \in LiveHandles(mesh) :
        \E r \in {tc_mesh_delete_gpu(gpu, mesh, tc_mesh_get(mesh, h))} :
          /\ gpu' = r.gpu
          /\ glast' = VaoOp("mesh_delete", h, r)
    /\ UNCHANGED <<poolVars, regVars, uploaded>>

VaoNext ==
    \/ GpuSetOps \/ GpuContextNew \/ GpuContextFree \/ GpuSetContext
    \/ GpuMeshCreate \/ GrpMeshSetVertices
    \/ VaoMeshUpload \/ VaoMeshDraw \/ VaoMeshDelete

SpecVao == VaoInit /\ [][VaoNext]_vars

(***************************************************************************)
(* C22: a VAO belongs to the context whose slot records it. A mesh upload,  *)
(* draw or delete run with context A current leaves every other context's  *)
(* VAO slots as they were, and every VAO it hands to the vtable             *)
(* (mesh_delete, mesh_draw) is the one A's own slot for the mesh held       *)
(* before the call or holds after it.                                       *)
(***************************************************************************)
C22_VaoOwnedByContext ==
    glast.op \in {"mesh_upload", "mesh_draw", "mesh_delete"} =>
        /\ \A B \in DOMAIN glast.before \ {glast.ctx} :
              /\ B \in DOMAIN gpu.contexts
              /\ gpu.contexts[B] = glast.before[B]
        /\ \A i \in DOMAIN glast.calls :
              /\ glast.calls[i][1] = "mesh_delete" =>
                    /\ glast.slot.vao # 0
                    /\ glast.calls[i][2] = glast.slot.vao
              /\ glast.calls[i][1] = "mesh_draw" =>
                    glast.calls[i][2] = gpu.contexts[glast.ctx].mesh_vaos[glast.index].vao

\* the VAO of a mesh was deleted with one context current while another
\* context holds a VAO of the same mesh
C22_Witness ==
    /\ glast.op \in {"mesh_upload", "mesh_draw", "mesh_delete"}
    /\ \E i \in DOMAIN glast.calls : glast.calls[i][1] = "mesh_delete"
    /\ \E B \in DOMAIN gpu.contexts \ {glast.ctx} :
          /\ glast.index < gpu.contexts[B].mesh_vao_capacity
          /\ gpu.contexts[B].mesh_vaos[glast.index].vao # 0

(***************************************************************************)
(* The returns of the sync calls that come before the slot is looked at:    *)
(* whether the call returns there, and what it logs when it does.           *)
(***************************************************************************)
Refused(log) == [early |-> TRUE, log |-> log]
Proceeds == [early |-> FALSE, log |-> "none"]

tc_texture_upload_gpu_early(g, reg, tex) ==
    IF tex = NULL \/ reg.pool.data[tex].data = "" THEN Refused("none")
    ELSE IF tgfx_gpu_get_ops(g) = <<>> THEN Refused("error")
    ELSE IF tc_gpu_get_context(g) = NULL THEN Refused("error")
    ELSE IF SlotNull(g, tc_gpu_get_context(g)) THEN Refused("error")
    ELSE Proceeds

tc_texture_bind_gpu_early(g, reg, tex) ==
    IF tex = NULL THEN Refused("none")
    ELSE IF tgfx_gpu_get_ops(g) = <<>> THEN Refused("error")
    ELSE IF tc_texture_needs_upload(g, reg, tex).ret
    THEN tc_texture_upload_gpu_early(g, reg, tex)
    ELSE Proceeds

tc_shader_compile_gpu_early(g, reg, shader_) ==
    IF shader_ = NULL THEN Refused("error")
    ELSE IF ~Has(tgfx_gpu_get_ops(g), "shader_compile") THEN Refused("error")
    ELSE IF tc_gpu_get_context(g) = NULL THEN Refused("error")
    ELSE IF SlotNull(g, tc_gpu_get_context(g)) THEN Refused("error")
    ELSE Proceeds

tc_mesh_upload_gpu_early(g, reg, mesh_) ==
    IF mesh_ = NULL \/ reg.pool.data[mesh_].vertices = "" THEN Refused("none")
    ELSE IF ~Has(tgfx_gpu_get_ops(g), "mesh_upload") THEN Refused("error")
    ELSE IF tc_gpu_get_context(g) = NULL THEN Refused("error")
    ELSE IF SlotNull(g, tc_gpu_get_context(g)) THEN Refused("error")
    ELSE Proceeds

(***************************************************************************)
(* SpecBare: sync calls made at any time, also before the backend installs  *)
(* its vtable and before a context is current.                              *)
(***************************************************************************)
\* glast after a sync call of SpecBare: the vtable and the current context at
\* the call, whether it returned 0 or false, its vtable calls, what it logged
\* if it returned before the slot, and whether the resource had data
Synced(op, h, r, e, hasdata) ==
    [op |-> op, h |-> h, ops |-> gpu.g_gpu_ops, ctx |-> gpu.g_current_gpu_context,
     zero |-> IF op \in {"texture_upload", "texture_bind"} THEN ~r.ret ELSE r.ret = 0,
     calls |-> r.calls,
     early |-> e.early, log |-> e.log, hasdata |-> hasdata]

BareTextureUpload ==
    /\ focus = "texture"
    /\ CurrentOk
    /\ \E h \in LiveHandles(texture), gpu_id \in {0} \cup GlIds :
        \E r \in {tc_texture_upload_gpu(gpu, texture, tc_texture_get(texture, h), gpu_id)} :
          /\ r.env
          /\ gpu' = r.gpu
          /\ glast' = Synced("texture_upload", h, r,
                             tc_texture_upload_gpu_early(gpu, texture,
                                                         tc_texture_get(texture, h)),
                             texture.pool.data[tc_texture_get(texture, h)].data # "")
    /\ UNCHANGED <<poolVars, regVars, uploaded>>

BareTextureBind ==
    /\ focus = "texture"
    /\ CurrentOk
    /\ \E h \in LiveHandles(texture), gpu_id \in {0} \cup GlIds :
        \E r \in {tc_texture_bind_gpu(gpu, texture, tc_texture_get(texture, h), 0, gpu_id)} :
          /\ r.env
          /\ gpu' = r.gpu
          /\ glast' = Synced("texture_bind", h, r,
                             tc_texture_bind_gpu_early(gpu, texture,
                                                       tc_texture_get(texture, h)),
                             texture.pool.data[tc_texture_get(texture, h)].data # "")
    /\ UNCHANGED <<poolVars, regVars, uploaded>>

BareShaderCompile ==
    /\ focus = "shader"
    /\ CurrentOk
    /\ \E h \in LiveHandles(shader), program \in {0} \cup GlIds :
        \E r \in {tc_shader_compile_gpu(gpu, shader, tc_shader_get(shader, h), program)} :
          /\ r.env
          /\ gpu' = r.gpu
          /\ glast' = Synced("shader_compile", h, r,
                             tc_shader_compile_gpu_early(gpu, shader,
                                                         tc_shader_get(shader, h)),
                             TRUE)
    /\ UNCHANGED <<poolVars, regVars, uploaded>>

BareMeshUpload ==
    /\ focus = "mesh"
    /\ CurrentOk
    /\ \E h \in LiveHandles(mesh), out \in MeshOuts :
        \E r \in {tc_mesh_upload_gpu(gpu, mesh, tc_mesh_get(mesh, h), out)} :
          /\ r.env
          /\ gpu' = r.gpu
          /\ glast' = Synced("mesh_upload", h, r,
                             tc_mesh_upload_gpu_early(gpu, mesh, tc_mesh_get(mesh, h)),
                             mesh.pool.data[tc_mesh_get(mesh, h)].vertices # "")
    /\ UNCHANGED <<poolVars, regVars, uploaded>>

BareNext ==
    \/ GpuSetOps \/ GpuContextNew \/ GpuSetContext
    \/ GpuTextureCreate \/ GrpTextureSetData \/ BareTextureUpload \/ BareTextureBind
    \/ GpuShaderCreate \/ GrpShaderSetSources \/ BareShaderCompile
    \/ GpuMeshCreate \/ GrpMeshSetVertices \/ BareMeshUpload

SpecBare == GpuInit /\ [][BareNext]_vars

SyncOps == {"texture_upload", "texture_bind", "shader_compile", "mesh_upload"}

\* the sync call was made with no vtable installed or with no context current
Bare == glast.op \in SyncOps /\ (glast.ops = <<>> \/ glast.ctx = NULL)

(***************************************************************************)
(* C23: with no vtable installed or no context current, each of             *)
(* tc_texture_upload_gpu, tc_texture_bind_gpu, tc_shader_compile_gpu and    *)
(* tc_mesh_upload_gpu logs an error and returns 0/false without a vtable    *)
(* call.                                                                    *)
(***************************************************************************)
C23_FailsGracefully ==
    Bare => /\ glast.early
            /\ glast.zero
            /\ glast.calls = <<>>
            /\ glast.log = "error"

\* what holds of those calls: they return 0/false before the slot is looked
\* at and without a vtable call, and log an error when the resource has the
\* data the call would upload
C23_FailsLoggedWithData ==
    Bare => /\ glast.early
            /\ glast.zero
            /\ glast.calls = <<>>
            /\ glast.hasdata => glast.log = "error"

\* a sync call on a resource with data, made with no vtable installed
C23_NoVtable == Bare /\ glast.ops = <<>> /\ glast.hasdata /\ glast.log = "error"

\* a sync call on a resource with data, made with a vtable and no context
C23_NoContext == Bare /\ glast.ops # <<>> /\ glast.hasdata /\ glast.log = "error"

(***************************************************************************)
(* SpecGrow: a client of one pool allocating slots, writing the items its   *)
(* handles resolve to, and freeing any handle it may hold: live, stale,     *)
(* invalid or out of range.                                                 *)
(***************************************************************************)
ItemValues == {7}       \* what a client writes into an item; a fresh item is 0

\* a handle whose index no capacity of the model reaches
FarHandle == [index |-> MaxCapacity, generation |-> 1]

\* plast of SpecGrow: the operation, its handle, what it returned and the
\* pool before it
Did(op, h, ok) == [op |-> op, h |-> h, ok |-> ok, before |-> pool]

GrowInit ==
    /\ pool = tc_pool_init(0, InitCapacity)
    /\ issued = {}
    /\ freed = {}
    /\ plast = [op |-> "init", h |-> TC_HANDLE_INVALID, ok |-> TRUE,
                before |-> tc_pool_init(0, InitCapacity)]
    /\ RegIdle
    /\ GpuIdle

GrowAlloc ==
    /\ CanAlloc(pool)
    /\ \E r \in {tc_pool_alloc(pool)} :
          /\ pool' = r.pool
          /\ issued' = issued \cup {r.h}
          /\ plast' = Did("alloc", r.h, TRUE)
    /\ UNCHANGED <<freed, regVars, gpuVars>>

\* the client writes through the pointer tc_pool_get returns
GrowWrite ==
    /\ \E h \in issued, v \in ItemValues :
          /\ tc_pool_get(pool, h) # NULL
          /\ pool' = [pool EXCEPT !.data[tc_pool_get(pool, h)] = v]
          /\ plast' = Did("write", h, TRUE)
    /\ UNCHANGED <<issued, freed, regVars, gpuVars>>

GrowFreeSlot ==
    /\ \E h \in issued \cup {TC_HANDLE_INVALID, FarHandle} :
          /\ h.index \in 0..(pool.capacity - 1) => pool.generations[h.index] < MaxGen
          /\ \E r \in {tc_pool_free_slot(pool, h)} :
                /\ pool' = r.pool
                /\ freed' = IF r.ok THEN freed \cup {h} ELSE freed
                /\ plast' = Did("free", h, r.ok)
    /\ UNCHANGED <<issued, regVars, gpuVars>>

GrowNext == GrowAlloc \/ GrowWrite \/ GrowFreeSlot

SpecGrow == GrowInit /\ [][GrowNext]_vars

\* the handles that are valid in pool p
ValidHandles(p) == {[index |-> i, generation |-> p.generations[i]] : i \in {j \in 0..(p.capacity - 1) : p.states[j] = TC_SLOT_OCCUPIED}}

(***************************************************************************)
(* C24: when tc_pool_alloc grows the pool, every handle that was valid      *)
(* before is valid afterwards, with the index and generation it had, and    *)
(* resolves to an item with the contents it had.                            *)
(***************************************************************************)
C24_GrowthKeepsHandles ==
    (plast.op = "alloc" /\ pool.capacity > plast.before.capacity) =>
        \A h \in ValidHandles(plast.before) :
            /\ tc_pool_is_valid(pool, h)
            /\ tc_pool_get(pool, h) = tc_pool_get(plast.before, h)
            /\ pool.data[tc_pool_get(pool, h)] = plast.before.data[tc_pool_get(plast.before, h)]

\* an alloc grew a pool that held an item a client had written
C24_Witness ==
    /\ plast.op = "alloc"
    /\ pool.capacity > plast.before.capacity
    /\ \E h \in ValidHandles(plast.before) : plast.before.data[h.index] \in ItemValues

(***************************************************************************)
(* C25: tc_pool_free_slot(h) returns false and leaves the pool as it was    *)
(* when h is stale (freed before, or not a handle the pool gave out), out   *)
(* of range, or names a slot that is free; it frees the slot of a valid     *)
(* handle once: a second free of the same handle changes nothing.           *)
(***************************************************************************)
C25_BadFreeChangesNothing ==
    plast.op = "free" =>
        LET B == plast.before
            h == plast.h
            bad == \/ h \in freed \ (IF plast.ok THEN {h} ELSE {})
                   \/ ~(h.index \in 0..(B.capacity - 1))
                   \/ B.states[h.index] # TC_SLOT_OCCUPIED
                   \/ B.generations[h.index] # h.generation
        IN  IF bad
            THEN ~plast.ok /\ pool = B
            ELSE /\ plast.ok
                 /\ pool.count = B.count - 1
                 /\ pool.states[h.index] = TC_SLOT_FREE
                 /\ Len(pool.free_list) = Len(B.free_list) + 1

\* a handle freed before was freed again while its slot was in use again
C25_Witness ==
    /\ plast.op = "free"
    /\ ~plast.ok
    /\ plast.h \in freed
    /\ plast.before.states[plast.h.index] = TC_SLOT_OCCUPIED

\* a handle was freed a second time right after its first free
C25_Twice ==
    /\ plast.op = "free"
    /\ ~plast.ok
    /\ plast.h \in freed
    /\ plast.before.states[plast.h.index] = TC_SLOT_FREE

\* a handle whose index is beyond the capacity was freed
C25_OutOfRange == plast.op = "free" /\ plast.h = FarHandle /\ ~plast.ok

\* ---------------------------------------------------------------------------
\* The open-addressing table of tc_resource_map.c, slot by slot.  The operators
\* tc_resource_map_* above give what a registry sees of a map (a function from
\* uuids to values); the operators below are the table itself: entries with a
\* state, linear probing, tombstones and the rehash on resize.
\* ---------------------------------------------------------------------------

ENTRY_EMPTY == 0

ENTRY_OCCUPIED == 1

ENTRY_DELETED == 2

MapBits == 2            \* log2 of the first capacity (4 in the code: 16 entries)

MapMaxBits == 3         \* adds that would grow the table past 2^MapMaxBits are not taken

HashMod == 256          \* the hash is kept to its low byte: the masks used are below 2^8

FNV_OFFSET == 37        \* low byte of 14695981039346656037 (0x...25)

FNV_PRIME == 179        \* low byte of 1099511628211 (0x...b3)

MapKeys == {"a", "b", "e", "i", "m"}

MapValues == {1, 2}     \* packed indices (index + 1), never NULL

\* the bytes of a key
Bytes == [a |-> <<97>>, b |-> <<98>>, e |-> <<101>>, i |-> <<105>>, m |-> <<109>>]

RECURSIVE BitXor(_, _)
BitXor(a, b) == IF a = 0 /\ b = 0 THEN 0 ELSE (((a % 2) + (b % 2)) % 2) + 2 * BitXor(a \div 2, b \div 2)

RECURSIVE BitAnd(_, _)
BitAnd(a, b) == IF a = 0 \/ b = 0 THEN 0 ELSE ((a % 2) * (b % 2)) + 2 * BitAnd(a \div 2, b \div 2)

RECURSIVE hash_bytes(_, _)
hash_bytes(hash, str) == IF str = <<>> THEN hash ELSE hash_bytes((BitXor(hash, Head(str)) * FNV_PRIME) % HashMod, Tail(str))

hash_string(str) == hash_bytes(FNV_OFFSET, Bytes[str])

RECURSIVE Pow2(_)
Pow2(n) == IF n = 0 THEN 1 ELSE 2 * Pow2(n - 1)

EmptyEntry == [key |-> "", value |-> 0, state |-> ENTRY_EMPTY]

map_new == [entries |-> [i \in 0..(Pow2(MapBits) - 1) |-> EmptyEntry], capacity |-> Pow2(MapBits), count |-> 0, deleted |-> 0]

\* the probe loop of tc_resource_map_get, from its i-th step
RECURSIVE map_get_from(_, _, _, _)
map_get_from(map, uuid, idx, i) ==
    IF i >= map.capacity THEN 0
    ELSE LET e == map.entries[BitAnd(idx + i, map.capacity - 1)] IN
         IF e.state = ENTRY_EMPTY THEN 0
         ELSE IF e.state = ENTRY_OCCUPIED /\ e.key = uuid THEN e.value
         ELSE map_get_from(map, uuid, idx, i + 1)

RECURSIVE map_get_from_StopAtTombstone(_, _, _, _)
map_get_from_StopAtTombstone(map, uuid, idx, i) ==
    IF i >= map.capacity THEN 0
    ELSE LET e == map.entries[BitAnd(idx + i, map.capacity - 1)] IN
         IF e.state # ENTRY_OCCUPIED THEN 0
         ELSE IF e.key = uuid THEN e.value
         ELSE map_get_from_StopAtTombstone(map, uuid, idx, i + 1)

map_get_StopAtTombstone(map, uuid) == IF uuid = "" THEN 0 ELSE map_get_from_StopAtTombstone(map, uuid, BitAnd(hash_string(uuid), map.capacity - 1), 0)

map_get(map, uuid) == IF uuid = "" THEN 0 ELSE map_get_from(map, uuid, BitAnd(hash_string(uuid), map.capacity - 1), 0)

map_contains(map, uuid) == map_get(map, uuid) # 0

\* the reinsertion loop of map_resize: the first empty slot from idx on
RECURSIVE map_first_empty(_, _, _)
map_first_empty(entries, capacity, idx) == IF entries[idx].state # ENTRY_OCCUPIED THEN idx ELSE map_first_empty(entries, capacity, BitAnd(idx + 1, capacity - 1))

\* the outer loop of map_resize: old entries i.. are moved into the new table
RECURSIVE map_rehash(_, _, _, _)
map_rehash(old, i, entries, capacity) ==
    IF i >= old.capacity THEN entries
    ELSE IF old.entries[i].state # ENTRY_OCCUPIED THEN map_rehash(old, i + 1, entries, capacity)
    ELSE LET e == old.entries[i]
             idx == map_first_empty(entries, capacity, BitAnd(hash_string(e.key), capacity - 1))
         IN map_rehash(old, i + 1, [entries EXCEPT ![idx] = e], capacity)

map_resize(map, new_capacity) ==
    LET entries == map_rehash(map, 0, [i \in 0..(new_capacity - 1) |-> EmptyEntry], new_capacity)
    IN [entries |-> entries, capacity |-> new_capacity, count |-> Cardinality({i \in DOMAIN entries : entries[i].state = ENTRY_OCCUPIED}), deleted |-> 0]

\* the probe loop of tc_resource_map_add; first_deleted is -1 for SIZE_MAX
RECURSIVE map_add_from(_, _, _, _, _, _)
map_add_from(map, uuid, resource, idx0, i, first_deleted) ==
    IF i >= map.capacity THEN [map |-> map, ok |-> FALSE]
    ELSE LET idx == BitAnd(idx0 + i, map.capacity - 1)
             e == map.entries[idx]
         IN IF e.state = ENTRY_EMPTY
            THEN LET at == IF first_deleted # -1 THEN first_deleted ELSE idx
                 IN [map |-> [map EXCEPT !.entries[at] = [key |-> uuid, value |-> resource, state |-> ENTRY_OCCUPIED], !.count = @ + 1, !.deleted = IF first_deleted # -1 THEN @ - 1 ELSE @], ok |-> TRUE]
            ELSE map_add_from(map, uuid, resource, idx0, i + 1, IF e.state = ENTRY_DELETED /\ first_deleted = -1 THEN idx ELSE first_deleted)

map_needs_resize(map) == (map.count + map.deleted) * 10 > map.capacity * 7

map_add(map, uuid, resource) ==
    IF uuid = "" \/ map_contains(map, uuid) THEN [map |-> map, ok |-> FALSE]
    ELSE LET m == IF map_needs_resize(map) THEN map_resize(map, map.capacity * 2) ELSE map
         IN map_add_from(m, uuid, resource, BitAnd(hash_string(uuid), m.capacity - 1), 0, -1)

RECURSIVE map_remove_from(_, _, _, _)
map_remove_from(map, uuid, idx0, i) ==
    IF i >= map.capacity THEN [map |-> map, ok |-> FALSE]
    ELSE LET idx == BitAnd(idx0 + i, map.capacity - 1)
             e == map.entries[idx]
         IN IF e.state = ENTRY_EMPTY THEN [map |-> map, ok |-> FALSE]
            ELSE IF e.state = ENTRY_OCCUPIED /\ e.key = uuid
            THEN [map |-> [map EXCEPT !.entries[idx] = [key |-> "", value |-> 0, state |-> ENTRY_DELETED], !.count = @ - 1, !.deleted = @ + 1], ok |-> TRUE]
            ELSE map_remove_from(map, uuid, idx0, i + 1)

map_remove(map, uuid) == IF uuid = "" THEN [map |-> map, ok |-> FALSE] ELSE map_remove_from(map, uuid, BitAnd(hash_string(uuid), map.capacity - 1), 0)

\* SpecMap: one table under add and remove.  pool holds the table, issued the
\* keys added and not removed since with the value each was added with, plast
\* the last call with the table before it.
Mapped(op, uuid, ok) == [op |-> op, h |-> uuid, ok |-> ok, before |-> pool]

MapInit == RegIdle /\ GpuIdle /\ pool = map_new /\ issued = tc_resource_map_new /\ freed = {} /\ plast = [op |-> "none", h |-> "", ok |-> FALSE, before |-> map_new]

MapAdd ==
    \E uuid \in MapKeys \cup {""}, resource \in MapValues :
        /\ ~(map_needs_resize(pool) /\ pool.capacity = Pow2(MapMaxBits))
        /\ \E r \in {map_add(pool, uuid, resource)} :
            /\ pool' = r.map
            /\ issued' = IF uuid = "" THEN issued ELSE tc_resource_map_add(issued, uuid, resource).map
            /\ plast' = Mapped("add", uuid, r.ok)
        /\ UNCHANGED <<freed, regVars, gpuVars>>

MapRemove ==
    \E uuid \in MapKeys :
        /\ \E r \in {map_remove(pool, uuid)} :
            /\ pool' = r.map
            /\ issued' = tc_resource_map_remove(issued, uuid)
            /\ plast' = Mapped("remove", uuid, r.ok)
        /\ UNCHANGED <<freed, regVars, gpuVars>>

MapNext == MapAdd \/ MapRemove

SpecMap == MapInit /\ [][MapNext]_vars

\* the home slot of a key and the slots its probe passes before reaching slot at
Home(map, uuid) == BitAnd(hash_string(uuid), map.capacity - 1)

Chain(map, uuid, at) == {BitAnd(Home(map, uuid) + i, map.capacity - 1) : i \in 0..(BitAnd(at - Home(map, uuid) + map.capacity, map.capacity - 1) - 1)}

SlotOf(map, uuid) == CHOOSE i \in DOMAIN map.entries : map.entries[i].state = ENTRY_OCCUPIED /\ map.entries[i].key = uuid

\* C26: after any sequence of adds and removes, get(key) is the value key was
\* added with and contains(key) is true exactly for the keys added and not
\* removed since (get is NULL for the others).
C26_GetAfterAddRemove == \A uuid \in MapKeys : /\ map_get(pool, uuid) = tc_resource_map_get(issued, uuid)
                                                /\ map_contains(pool, uuid) <=> uuid \in DOMAIN issued

\* a key is found behind a tombstone of its own probe chain
C26_Witness == \E uuid \in DOMAIN issued : /\ map_get(pool, uuid) = issued[uuid]
                                           /\ \E i \in Chain(pool, uuid, SlotOf(pool, uuid)) : pool.entries[i].state = ENTRY_DELETED

\* an add has just resized a table that held tombstones, and the keys it held are still found
C26_Rehashed == /\ plast.op = "add" /\ plast.ok
                /\ pool.capacity = 2 * plast.before.capacity
                /\ plast.before.deleted > 0 /\ plast.before.count > 1
                /\ \A uuid \in DOMAIN issued : map_get(pool, uuid) = issued[uuid]

\* ---------------------------------------------------------------------------
\* The mesh's export accessors and its declare / lazy-load protocol.
\* ---------------------------------------------------------------------------

tc_mesh_get_vertices(reg, h) == IF tc_mesh_get(reg, h) = NULL THEN "" ELSE reg.pool.data[tc_mesh_get(reg, h)].vertices

tc_mesh_get_vertex_count(reg, h) == IF tc_mesh_get(reg, h) = NULL THEN 0 ELSE reg.pool.data[tc_mesh_get(reg, h)].vertex_count

tc_mesh_get_indices(reg, h) == IF tc_mesh_get(reg, h) = NULL THEN "" ELSE reg.pool.data[tc_mesh_get(reg, h)].indices

tc_mesh_get_index_count(reg, h) == IF tc_mesh_get(reg, h) = NULL THEN 0 ELSE reg.pool.data[tc_mesh_get(reg, h)].index_count

tc_mesh_get_layout(reg, h) == IF tc_mesh_get(reg, h) = NULL THEN [stride |-> 0] ELSE reg.pool.data[tc_mesh_get(reg, h)].layout

tc_mesh_declare(reg0, uuid, name) ==
    LET reg == tc_mesh_init(reg0)
        existing == tc_mesh_find(reg, uuid)
    IN  IF ~tc_handle_is_invalid(existing) THEN [reg |-> reg, h |-> existing, log |-> "none"]
        ELSE
        LET a    == tc_pool_alloc(reg.pool)
            item == [ZeroMesh EXCEPT !.uuid = uuid, !.version = 0, !.ref_count = 0,
                                     !.pool_index = a.h.index, !.is_loaded = 0,
                                     !.load_callback = "", !.name = name]
            p2   == [a.pool EXCEPT !.data[a.h.index] = item]
            add  == tc_resource_map_add(reg.uuid_to_index, item.uuid, tc_pack_index(a.h.index))
        IN  IF add.ok
            THEN [reg |-> [reg EXCEPT !.pool = p2, !.uuid_to_index = add.map], h |-> a.h, log |-> "none"]
            ELSE [reg |-> [reg EXCEPT !.pool = tc_pool_free_slot(p2, a.h).pool], h |-> TC_HANDLE_INVALID, log |-> "error"]

tc_mesh_set_load_callback(reg, h, callback) == IF tc_mesh_get(reg, h) = NULL THEN reg ELSE [reg EXCEPT !.pool.data[tc_mesh_get(reg, h)].load_callback = callback]

tc_mesh_is_loaded(reg, h) == IF tc_mesh_get(reg, h) = NULL THEN FALSE ELSE reg.pool.data[tc_mesh_get(reg, h)].is_loaded # 0

\* What a load callback does when it is invoked on mesh_: it fails, or it
\* fills the mesh with tc_mesh_set_data and succeeds, or it succeeds only, or
\* it fills the mesh and reports a failure all the same.
Outcomes == {"fail", "load", "true", "load_fail"}

load_callback(reg, mesh_, outcome) ==
    IF outcome \in {"load", "load_fail"} THEN [reg |-> tc_mesh_set_data(reg, mesh_, "v", 1, <<[stride |-> 12]>>, "i", 3, "", FALSE, FALSE).reg, success |-> outcome = "load"]
    ELSE [reg |-> reg, success |-> outcome = "true"]

tc_mesh_ensure_loaded_NoLoadedTest(reg, h, outcome) ==
    LET mesh_ == tc_mesh_get(reg, h) IN
    IF mesh_ = NULL THEN [reg |-> reg, ret |-> FALSE, log |-> "none", invoked |-> 0]
    ELSE IF reg.pool.data[mesh_].load_callback = "" THEN [reg |-> reg, ret |-> FALSE, log |-> "warn", invoked |-> 0]
    ELSE LET r == load_callback(reg, mesh_, outcome)
         IN IF r.success THEN [reg |-> [r.reg EXCEPT !.pool.data[mesh_].is_loaded = 1], ret |-> TRUE, log |-> "none", invoked |-> 1]
            ELSE [reg |-> r.reg, ret |-> FALSE, log |-> "error", invoked |-> 1]

tc_mesh_ensure_loaded(reg, h, outcome) ==
    LET mesh_ == tc_mesh_get(reg, h) IN
    IF mesh_ = NULL THEN [reg |-> reg, ret |-> FALSE, log |-> "none", invoked |-> 0]
    ELSE IF reg.pool.data[mesh_].is_loaded # 0 THEN [reg |-> reg, ret |-> TRUE, log |-> "none", invoked |-> 0]
    ELSE IF reg.pool.data[mesh_].load_callback = "" THEN [reg |-> reg, ret |-> FALSE, log |-> "warn", invoked |-> 0]
    ELSE LET r == load_callback(reg, mesh_, outcome)
         IN IF r.success THEN [reg |-> [r.reg EXCEPT !.pool.data[mesh_].is_loaded = 1], ret |-> TRUE, log |-> "none", invoked |-> 1]
            ELSE [reg |-> r.reg, ret |-> FALSE, log |-> "error", invoked |-> 1]

\* SpecLazy: meshes that are created or declared, given a load callback,
\* loaded on demand, written and destroyed.  rlast is the last call: the item
\* behind h before it, what the call was given (wrote), whether it invoked the
\* callback, and for every handle whose loading was asked for while it was
\* unloaded with a callback, the calls and the callback's invocations and
\* failures since then (tally).
LazyMaxCalls == 2       \* tc_mesh_ensure_loaded calls counted per mesh

LazyQuota == 1          \* meshes alive in SpecLazy

NoWrite == [vertices |-> "", vertex_count |-> 0, layout |-> <<>>, indices |-> "", index_count |-> 0]

ItemAt(reg, h) == IF tc_mesh_get(reg, h) = NULL THEN ZeroMesh ELSE reg.pool.data[tc_mesh_get(reg, h)]

Lazy(op, h, ret, invoked, wrote, tally) == [op |-> op, h |-> h, ret |-> ret, live |-> tc_mesh_is_valid(mesh, h), before |-> ItemAt(mesh, h), invoked |-> invoked, wrote |-> wrote, tally |-> tally]

NoTally == [h \in {} |-> [calls |-> 0, invoked |-> 0, failed |-> 0]]

LazyInit == PoolIdle /\ GpuIdle /\ mesh = Uninitialized(ZeroMesh) /\ texture = Uninitialized(ZeroTexture) /\ shader = ShaderUninitialized /\ material = Uninitialized(ZeroMaterial) /\ focus = "mesh" /\ quota = LazyQuota /\ rlast = [op |-> "init", h |-> TC_HANDLE_INVALID, ret |-> FALSE, live |-> FALSE, before |-> ZeroMesh, invoked |-> 0, wrote |-> NoWrite, tally |-> NoTally]

LazyCreate ==
    \E uuid \in Uuids :
        /\ CanCreate(mesh, uuid)
        /\ \E r \in {tc_mesh_create(mesh, uuid)} :
            /\ mesh' = r.reg
            /\ rlast' = Lazy("create", r.h, ~tc_handle_is_invalid(r.h), 0, NoWrite, rlast.tally)
        /\ UNCHANGED <<poolVars, texture, shader, material, focus, quota, gpuVars>>

LazyDeclare ==
    \E uuid \in Uuids \ {""}, name \in Names :
        /\ tc_handle_is_invalid(registry_find(mesh, uuid)) => CanCreate(mesh, uuid)
        /\ \E r \in {tc_mesh_declare(mesh, uuid, name)} :
            /\ mesh' = r.reg
            /\ rlast' = Lazy("declare", r.h, ~tc_handle_is_invalid(r.h), 0, NoWrite, rlast.tally)
        /\ UNCHANGED <<poolVars, texture, shader, material, focus, quota, gpuVars>>

LazySetLoadCallback ==
    \E h \in Held(mesh), callback \in {"", "cb"} :
        /\ mesh' = tc_mesh_set_load_callback(mesh, h, callback)
        /\ rlast' = Lazy("set_load_callback", h, TRUE, 0, NoWrite, rlast.tally)
        /\ UNCHANGED <<poolVars, texture, shader, material, focus, quota, gpuVars>>

\* the tally of h after a call of tc_mesh_ensure_loaded that returned r
Tallied(h, r) ==
    LET t == rlast.tally
        counted == h \in DOMAIN t \/ (tc_mesh_is_valid(mesh, h) /\ ~tc_mesh_is_loaded(mesh, h) /\ ItemAt(mesh, h).load_callback # "")
        old == IF h \in DOMAIN t THEN t[h] ELSE [calls |-> 0, invoked |-> 0, failed |-> 0]
    IN IF ~counted THEN t
       ELSE [k \in DOMAIN t \cup {h} |-> IF k = h THEN [calls |-> old.calls + 1, invoked |-> old.invoked + r.invoked, failed |-> old.failed + (IF r.invoked = 1 /\ ~r.ret THEN 1 ELSE 0)] ELSE t[k]]

LazyEnsureLoaded ==
    \E h \in Held(mesh), outcome \in Outcomes :
        /\ h \in DOMAIN rlast.tally => rlast.tally[h].calls < LazyMaxCalls
        /\ BelowMaxVersion(mesh, tc_mesh_get(mesh, h))
        /\ \E r \in {tc_mesh_ensure_loaded(mesh, h, outcome)} :
            /\ mesh' = r.reg
            /\ rlast' = Lazy("ensure_loaded", h, r.ret, r.invoked, NoWrite, Tallied(h, r))
        /\ UNCHANGED <<poolVars, texture, shader, material, focus, quota, gpuVars>>

LazyVertexArgs == VertexArgs \cup {<<"w", 2>>}

LazySetData ==
    \E h \in Held(mesh), v \in LazyVertexArgs, layout \in Layouts, i \in IndexArgs, oom \in {"", "v", "i"} :
        /\ BelowMaxVersion(mesh, tc_mesh_get(mesh, h))
        /\ \E r \in {tc_mesh_set_data(mesh, tc_mesh_get(mesh, h), v[1], v[2], layout, i[1], i[2], "", oom = "v", oom = "i")} :
            /\ mesh' = r.reg
            /\ rlast' = Lazy("set_data", h, r.ret, 0, [vertices |-> v[1], vertex_count |-> v[2], layout |-> layout, indices |-> i[1], index_count |-> i[2]], rlast.tally)
        /\ UNCHANGED <<poolVars, texture, shader, material, focus, quota, gpuVars>>

LazyDestroy ==
    \E h \in LiveHandles(mesh) :
        /\ MayFree(mesh, h)
        /\ \E r \in {tc_mesh_destroy(mesh, h)} :
            /\ mesh' = r.reg
            /\ rlast' = Lazy("destroy", h, r.ok, 0, NoWrite, [k \in DOMAIN rlast.tally \ {h} |-> rlast.tally[k]])
        /\ UNCHANGED <<poolVars, texture, shader, material, focus, quota, gpuVars>>

LazyNext == LazyCreate \/ LazyDeclare \/ LazySetLoadCallback \/ LazyEnsureLoaded \/ LazySetData \/ LazyDestroy

SpecLazy == LazyInit /\ [][LazyNext]_vars

\* C27: after tc_mesh_set_data has written N vertices and M indices into a
\* mesh, the accessors return the vertices, the vertex count, the indices, the
\* index count and the layout that were written, and the mesh's version is the
\* version before the call plus 1.
C27_SetDataRoundTrip ==
    (rlast.op = "set_data" /\ rlast.ret) =>
        /\ rlast.wrote.vertices # "" => tc_mesh_get_vertices(mesh, rlast.h) = rlast.wrote.vertices
        /\ tc_mesh_get_vertex_count(mesh, rlast.h) = rlast.wrote.vertex_count
        /\ rlast.wrote.indices # "" => tc_mesh_get_indices(mesh, rlast.h) = rlast.wrote.indices
        /\ tc_mesh_get_index_count(mesh, rlast.h) = rlast.wrote.index_count
        /\ tc_mesh_get_layout(mesh, rlast.h) = rlast.wrote.layout[1]
        /\ ItemAt(mesh, rlast.h).version = rlast.before.version + 1

\* vertices and indices have replaced other vertices and other indices
C27_Witness ==
    /\ rlast.op = "set_data" /\ rlast.ret
    /\ rlast.wrote.vertices = "w" /\ rlast.before.vertices = "v"
    /\ rlast.wrote.indices = "i" /\ rlast.before.index_count = 0
    /\ tc_mesh_get_vertices(mesh, rlast.h) = "w" /\ tc_mesh_get_indices(mesh, rlast.h) = "i"
    /\ ItemAt(mesh, rlast.h).version = 3

C28_Retried ==
    /\ rlast.op = "ensure_loaded" /\ rlast.ret /\ rlast.invoked = 1
    /\ rlast.h \in DOMAIN rlast.tally
    /\ rlast.tally[rlast.h] = [calls |-> 2, invoked |-> 2, failed |-> 1]

\* C29: every resource's version is 1 right after the registry operation that
\* created it: a handle that a step makes live names an item of version 1.
C29_VersionOneAtCreation == [][\A h \in LiveHandles(Reg') \ LiveHandles(Reg) : Reg'.pool.data[h.index].version = 1]_vars

\* the same of every creating operation but tc_mesh_declare
C29_ExceptDeclare == [][rlast'.op # "declare" => \A h \in LiveHandles(Reg') \ LiveHandles(Reg) : Reg'.pool.data[h.index].version = 1]_vars

\* tc_mesh_declare has just created a mesh, whose version is 0
C29_Declared ==
    /\ rlast.op = "declare" /\ rlast.ret /\ ~rlast.live
    /\ tc_mesh_is_valid(mesh, rlast.h)
    /\ ItemAt(mesh, rlast.h).version = 0

\* C30: the header's pool_index of every live resource of every kind is the
\* index of the pool slot it occupies, the index field of its handle.
C30_PoolIndexIsSlot ==
    /\ \A h \in LiveHandles(mesh) : mesh.pool.data[h.index].pool_index = h.index
    /\ \A h \in LiveHandles(texture) : texture.pool.data[h.index].pool_index = h.index
    /\ \A h \in LiveHandles(shader) : shader.pool.data[h.index].pool_index = h.index
    /\ \A h \in LiveHandles(material) : material.pool.data[h.index].pool_index = h.index

\* the same of meshes, textures and shaders
C30_ExceptMaterials ==
    /\ \A h \in LiveHandles(mesh) : mesh.pool.data[h.index].pool_index = h.index
    /\ \A h \in LiveHandles(texture) : texture.pool.data[h.index].pool_index = h.index
    /\ \A h \in LiveHandles(shader) : shader.pool.data[h.index].pool_index = h.index

\* a material lives in slot 1 and its pool_index is 0
C30_SecondMaterial == \E h \in LiveHandles(material) : h.index = 1 /\ material.pool.data[1].pool_index = 0

\* a mesh, a texture or a shader lives in slot 1
C30_SecondSlot == \E reg \in {mesh, texture} : \E h \in LiveHandles(reg) : h.index = 1 /\ reg.pool.data[1].pool_index = 1

\* ---------------------------------------------------------------------------
\* tc_material_get_phases_for_mark: the phases of one mark, by priority.
\* out_phases is the sequence of the positions (1-based) in mat->phases that
\* the pointers written to the caller's array point to.
\* ---------------------------------------------------------------------------

\* the collecting loop, from phase i on (0-based as in the code)
RECURSIVE phases_collect(_, _, _, _, _)
phases_collect(phases, mark, max_count, i, out) ==
    IF ~(i < Len(phases) /\ Len(out) < max_count) THEN out
    ELSE phases_collect(phases, mark, max_count, i + 1, IF phases[i + 1].phase_mark = mark THEN Append(out, i + 1) ELSE out)

Swapped(out, j) == [out EXCEPT ![j + 1] = out[j + 2], ![j + 2] = out[j + 1]]

\* the inner loop of the bubble sort, from j on
RECURSIVE phases_bubble(_, _, _, _)
phases_bubble(phases, out, i, j) ==
    IF ~(j + 1 < Len(out) - i) THEN out
    ELSE phases_bubble(phases, IF phases[out[j + 1]].priority > phases[out[j + 2]].priority THEN Swapped(out, j) ELSE out, i, j + 1)

RECURSIVE phases_bubble_Unstable(_, _, _, _)
phases_bubble_Unstable(phases, out, i, j) ==
    IF ~(j + 1 < Len(out) - i) THEN out
    ELSE phases_bubble_Unstable(phases, IF phases[out[j + 1]].priority >= phases[out[j + 2]].priority THEN Swapped(out, j) ELSE out, i, j + 1)

\* the outer loop of the bubble sort, from i on
RECURSIVE phases_sort(_, _, _)
phases_sort(phases, out, i) == IF ~(i + 1 < Len(out)) THEN out ELSE phases_sort(phases, phases_bubble(phases, out, i, 0), i + 1)

RECURSIVE phases_sort_Unstable(_, _, _)
phases_sort_Unstable(phases, out, i) == IF ~(i + 1 < Len(out)) THEN out ELSE phases_sort_Unstable(phases, phases_bubble_Unstable(phases, out, i, 0), i + 1)

tc_material_get_phases_for_mark_Unstable(reg, mat, mark, max_count) ==
    IF mat = NULL \/ mark = "" \/ max_count = 0 THEN [out_phases |-> <<>>, count |-> 0]
    ELSE LET out == phases_sort_Unstable(reg.pool.data[mat].phases, phases_collect(reg.pool.data[mat].phases, mark, max_count, 0, <<>>), 0)
         IN [out_phases |-> out, count |-> Len(out)]

\* mark is "" for a NULL mark
tc_material_get_phases_for_mark(reg, mat, mark, max_count) ==
    IF mat = NULL \/ mark = "" \/ max_count = 0 THEN [out_phases |-> <<>>, count |-> 0]
    ELSE LET out == phases_sort(reg.pool.data[mat].phases, phases_collect(reg.pool.data[mat].phases, mark, max_count, 0, <<>>), 0)
         IN [out_phases |-> out, count |-> Len(out)]

\* SpecPhase: one material whose phases are added, removed and looked up.
PhMaxPhases == 4        \* phases added to the material at most

PhMaxCount == 4         \* largest max_count a lookup is called with

PhMarks == {"opaque", "shadow"}

PhPriorities == {0, 1, 2}

PhNoOp == [op |-> "init", h |-> TC_HANDLE_INVALID, mark |-> "", max_count |-> 0, out_phases |-> <<>>, count |-> 0]

PhInit == PoolIdle /\ GpuIdle /\ mesh = Uninitialized(ZeroMesh) /\ texture = Uninitialized(ZeroTexture) /\ shader = ShaderUninitialized /\ material = Uninitialized(ZeroMaterial) /\ focus = "material" /\ quota = 1 /\ rlast = PhNoOp

PhCreate ==
    /\ ~material.initialized
    /\ \E r \in {tc_material_create(material, "a", "n")} :
        /\ material' = r.reg
        /\ rlast' = [PhNoOp EXCEPT !.op = "create", !.h = r.h]
    /\ UNCHANGED <<poolVars, mesh, texture, shader, focus, quota, gpuVars>>

PhAddPhase ==
    \E h \in LiveHandles(material), mark \in PhMarks \cup {""}, priority \in PhPriorities :
        /\ Len(material.pool.data[h.index].phases) < PhMaxPhases
        /\ mark = "" => priority = 0
        /\ \E r \in {tc_material_add_phase(material, shader, tc_material_get(material, h), TC_HANDLE_INVALID, mark, priority)} :
            /\ material' = r.reg
            /\ rlast' = [PhNoOp EXCEPT !.op = "add_phase", !.h = h]
        /\ UNCHANGED <<poolVars, mesh, texture, shader, focus, quota, gpuVars>>

PhLookup ==
    \E h \in LiveHandles(material), mark \in PhMarks \cup {""}, max_count \in 0..PhMaxCount :
        /\ \E r \in {tc_material_get_phases_for_mark(material, tc_material_get(material, h), mark, max_count)} :
            rlast' = [op |-> "get_phases_for_mark", h |-> h, mark |-> mark, max_count |-> max_count, out_phases |-> r.out_phases, count |-> r.count]
        /\ UNCHANGED <<poolVars, mesh, texture, shader, material, focus, quota, gpuVars>>

PhNext == PhCreate \/ PhAddPhase \/ PhLookup

SpecPhase == PhInit /\ [][PhNext]_vars

\* the positions of the phases of the looked-up material that carry mark
Marked(mark) == {i \in 1..Len(material.pool.data[rlast.h.index].phases) : material.pool.data[rlast.h.index].phases[i].phase_mark = mark}

PriorityAt(i) == material.pool.data[rlast.h.index].phases[i].priority

C31_Truncated ==
    /\ rlast.op = "get_phases_for_mark" /\ rlast.count = 2 /\ rlast.max_count = 2
    /\ Cardinality(Marked(rlast.mark)) = 3
    /\ \E i \in Marked(rlast.mark) : /\ \A k \in 1..2 : rlast.out_phases[k] # i
                                      /\ PriorityAt(i) < PriorityAt(rlast.out_phases[1])

\* ---------------------------------------------------------------------------
\* tgfx_vertex_layout: attributes appended to a vertex format.
\* ---------------------------------------------------------------------------

TGFX_ATTRIB_FLOAT32 == 0

TGFX_ATTRIB_UINT32 == 2

TGFX_ATTRIB_UINT16 == 4

TGFX_ATTRIB_UINT8 == 6

TGFX_VERTEX_ATTRIBS_MAX == 8

Uint16 == 65536

tgfx_attrib_type_size(type) == CASE type \in {0, 1, 2} -> 4 [] type \in {3, 4} -> 2 [] type \in {5, 6} -> 1 [] OTHER -> 0

\* the layout after tgfx_vertex_layout_init
tgfx_vertex_layout_init == [stride |-> 0, attrib_count |-> 0, attribs |-> <<>>]

tgfx_vertex_layout_add_OffsetAfter(layout, name, size, type, location) ==
    IF name = "" THEN [layout |-> layout, ret |-> FALSE]
    ELSE IF layout.attrib_count >= TGFX_VERTEX_ATTRIBS_MAX THEN [layout |-> layout, ret |-> FALSE]
    ELSE LET stride == (layout.stride + ((size * tgfx_attrib_type_size(type)) % Uint16)) % Uint16
         IN [layout |-> [stride |-> stride, attrib_count |-> layout.attrib_count + 1, attribs |-> Append(layout.attribs, [name |-> name, size |-> size, type |-> type, location |-> location, offset |-> stride])], ret |-> TRUE]

\* name is "" for a NULL name
tgfx_vertex_layout_add(layout, name, size, type, location) ==
    IF name = "" THEN [layout |-> layout, ret |-> FALSE]
    ELSE IF layout.attrib_count >= TGFX_VERTEX_ATTRIBS_MAX THEN [layout |-> layout, ret |-> FALSE]
    ELSE [layout |-> [stride |-> (layout.stride + ((size * tgfx_attrib_type_size(type)) % Uint16)) % Uint16,
                      attrib_count |-> layout.attrib_count + 1,
                      attribs |-> Append(layout.attribs, [name |-> name, size |-> size, type |-> type, location |-> location, offset |-> layout.stride])],
          ret |-> TRUE]

\* SpecLayout: one layout, initialised and then extended.  rlast holds the
\* layout and the result of the last call.
\* (size, type) arguments: three floats, four shorts, four bytes, and the
\* largest attribute there is
LayoutArgs == {<<3, TGFX_ATTRIB_FLOAT32>>, <<4, TGFX_ATTRIB_UINT16>>, <<4, TGFX_ATTRIB_UINT8>>, <<255, TGFX_ATTRIB_UINT32>>}

LayoutInit == PoolIdle /\ RegIdle /\ GpuIdle

LayoutNew ==
    /\ rlast' = [op |-> "layout_init", ret |-> TRUE, layout |-> tgfx_vertex_layout_init]
    /\ UNCHANGED <<poolVars, mesh, texture, shader, material, focus, quota, gpuVars>>

LayoutAdd ==
    /\ rlast.op \in {"layout_init", "layout_add"}
    /\ \E a \in LayoutArgs, name \in {"", "position"} :
        \E r \in {tgfx_vertex_layout_add(rlast.layout, name, a[1], a[2], rlast.layout.attrib_count)} :
            rlast' = [op |-> "layout_add", ret |-> r.ret, layout |-> r.layout]
    /\ UNCHANGED <<poolVars, mesh, texture, shader, material, focus, quota, gpuVars>>

LayoutNext == LayoutNew \/ LayoutAdd

SpecLayout == LayoutInit /\ [][LayoutNext]_vars

\* the bytes of the first n attributes of a layout
RECURSIVE BytesBefore(_, _)
BytesBefore(attribs, n) == IF n = 0 THEN 0 ELSE BytesBefore(attribs, n - 1) + attribs[n].size * tgfx_attrib_type_size(attribs[n].type)

\* C32: after any number of successful tgfx_vertex_layout_add calls on an
\* initialised layout, the offset of each attribute is the sum of the byte
\* sizes of the attributes added before it and the stride is the sum of the
\* byte sizes of all of them.
C32_OffsetsAndStride ==
    rlast.op \in {"layout_init", "layout_add"} =>
        /\ rlast.layout.attrib_count = Len(rlast.layout.attribs)
        /\ \A k \in 1..Len(rlast.layout.attribs) : rlast.layout.attribs[k].offset = BytesBefore(rlast.layout.attribs, k - 1)
        /\ rlast.layout.stride = BytesBefore(rlast.layout.attribs, Len(rlast.layout.attribs))

\* a full layout of mixed attributes, the last add accepted
C32_Witness ==
    /\ rlast.op = "layout_add" /\ rlast.ret
    /\ rlast.layout.attrib_count = TGFX_VERTEX_ATTRIBS_MAX
    /\ rlast.layout.attribs[2].offset = 12 /\ rlast.layout.attribs[3].offset = 20
    /\ rlast.layout.stride > 1020

\* ---------------------------------------------------------------------------
\* SpecReuse: resources created, filled, synced, deleted on the GPU side and
\* destroyed under one default context, so that a pool index is used again by
\* a later resource.  issued is the set of <<share group, pool index, handle>>
\* saying from which resource the data in the group's slot of that index was
\* last uploaded.
\* ---------------------------------------------------------------------------

\* the operations that resolve a resource to its GL object
ResolveOps == {"texture_upload", "texture_bind", "shader_compile", "shader_use", "mesh_upload"}

\* the vtable entries that send a resource's data
DataCalls == {"texture_upload", "depth_texture_upload", "shader_compile", "mesh_upload"}

\* issued after a resolve of h that returned r: the slot holds h's data if the call sent it
Sent(h, r, ok) ==
    LET grp == GroupOf(gpu, gpu.g_current_gpu_context)
    IN IF ok /\ \E i \in 1..Len(r.calls) : r.calls[i][1] \in DataCalls
       THEN {t \in issued : ~(t[1] = grp /\ t[2] = h.index)} \cup {<<grp, h.index, h>>}
       ELSE issued

ReuseTextureUpload ==
    /\ focus = "texture" /\ CurrentOk
    /\ \E h \in Held(texture), gpu_id \in {0} \cup GlIds :
        \E r \in {tc_texture_upload_gpu(gpu, texture, tc_texture_get(texture, h), gpu_id)} :
            /\ r.env
            /\ gpu' = r.gpu
            /\ issued' = Sent(h, r, r.ret)
            /\ glast' = Resolved("texture_upload", texture, h, tc_texture_get(texture, h), r, r.ret, 0, <<>>)
    /\ UNCHANGED <<pool, freed, plast, regVars, uploaded>>

ReuseTextureBind ==
    /\ focus = "texture" /\ CurrentOk
    /\ \E h \in Held(texture), gpu_id \in {0} \cup GlIds :
        \E r \in {tc_texture_bind_gpu(gpu, texture, tc_texture_get(texture, h), 0, gpu_id)} :
            /\ r.env
            /\ gpu' = r.gpu
            /\ issued' = Sent(h, r, r.ret)
            /\ glast' = Resolved("texture_bind", texture, h, tc_texture_get(texture, h), r, r.ret, 0, <<>>)
    /\ UNCHANGED <<pool, freed, plast, regVars, uploaded>>

ReuseShaderCompile ==
    /\ focus = "shader" /\ CurrentOk
    /\ \E h \in Held(shader), program \in {0} \cup GlIds :
        \E r \in {tc_shader_compile_gpu(gpu, shader, tc_shader_get(shader, h), program)} :
            /\ r.env
            /\ gpu' = r.gpu
            /\ issued' = Sent(h, r, r.ret # 0)
            /\ glast' = Resolved("shader_compile", shader, h, tc_shader_get(shader, h), r, r.ret # 0, r.ret, <<>>)
    /\ UNCHANGED <<pool, freed, plast, regVars, uploaded>>

ReuseShaderUse ==
    /\ focus = "shader" /\ CurrentOk
    /\ \E h \in Held(shader), program \in {0} \cup GlIds :
        \E r \in {tc_shader_use_gpu(gpu, shader, tc_shader_get(shader, h), program)} :
            /\ r.env
            /\ gpu' = r.gpu
            /\ issued' = Sent(h, r, r.ret # 0)
            /\ glast' = Resolved("shader_use", shader, h, tc_shader_get(shader, h), r, r.ret # 0, r.ret, <<>>)
    /\ UNCHANGED <<pool, freed, plast, regVars, uploaded>>

ReuseMeshUpload ==
    /\ focus = "mesh" /\ CurrentOk
    /\ \E h \in Held(mesh), out \in MeshOuts :
        \E r \in {tc_mesh_upload_gpu(gpu, mesh, tc_mesh_get(mesh, h), out)} :
            /\ r.env
            /\ gpu' = r.gpu
            /\ issued' = Sent(h, r, r.ret # 0)
            /\ glast' = Resolved("mesh_upload", mesh, h, tc_mesh_get(mesh, h), r, r.ret # 0, r.ret, <<>>)
    /\ UNCHANGED <<pool, freed, plast, regVars, uploaded>>

ReuseNext ==
    \/ GpuSetOps \/ GpuEnsureDefault
    \/ GpuTextureCreate \/ GpuTextureDestroy \/ GpuTextureSetData
    \/ ReuseTextureUpload \/ ReuseTextureBind \/ GpuTextureDelete
    \/ GpuShaderCreate \/ GpuShaderDestroy \/ GpuShaderSetSources
    \/ ReuseShaderCompile \/ ReuseShaderUse \/ GpuShaderDelete
    \/ GpuMeshCreate \/ GpuMeshDestroy \/ GpuMeshSetVertices
    \/ ReuseMeshUpload \/ GpuMeshDelete

SpecReuse == GpuInit /\ [][ReuseNext]_vars

\* the resource whose data the slot of the last resolved resource holds
Senders == {t[3] : t \in {t \in issued : t[1] = GroupOf(gpu, glast.ctx) /\ t[2] = glast.index}}

\* C33: a sync call that succeeds for resource R leaves R resolved to a GL
\* object uploaded from R itself: the data in the slot of R's pool index was
\* sent for R, not for a destroyed resource that used the index before.
C33_ResolvesOwnData == (glast.op \in ResolveOps /\ glast.ok) => Senders = {glast.h}

\* the same of the resources that are the first to use their pool index
C33_FirstUseOfIndex == (glast.op \in ResolveOps /\ glast.ok /\ glast.h.generation = 1) => Senders = {glast.h}

\* a resource in a reused pool index is resolved, without a vtable call, to
\* the object uploaded from the destroyed resource
C33_StaleSlotTaken ==
    /\ glast.op \in ResolveOps /\ glast.ok
    /\ glast.h.generation = 2
    /\ glast.calls = <<>>
    /\ Senders = {[index |-> glast.h.index, generation |-> 1]}

\* the non-zero VAO names a context's slot array holds
VaoIds(C) == {C.mesh_vaos[i].vao : i \in DOMAIN C.mesh_vaos} \ {0}

\* the GL objects of the kind a vtable delete function takes, alive in g
AliveFor(g, fn) ==
    IF fn = "texture_delete" THEN g.gl.textures
    ELSE IF fn = "shader_delete" THEN g.gl.programs
    ELSE IF fn = "buffer_delete" THEN g.gl.buffers
    ELSE g.gl.vaos

DeleteCalls == {"texture_delete", "shader_delete", "buffer_delete", "mesh_delete"}

\* every non-zero id a share-group slot or a context VAO slot records is a GL
\* object that was created through the vtable and is not deleted
SlotIdsAlive(g) ==
    /\ \A group \in DOMAIN g.groups :
          /\ TextureIds(g.groups[group]) \subseteq g.gl.textures
          /\ ShaderIds(g.groups[group]) \subseteq g.gl.programs
          /\ BufferIds(g.groups[group]) \subseteq g.gl.buffers
    /\ \A ctx \in DOMAIN g.contexts : VaoIds(g.contexts[ctx]) \subseteq g.gl.vaos

\* every object an upload, compile or bind hands to a vtable delete function
\* was alive in g when the call began, and none is handed over twice
DeletesAlive(g, calls) ==
    \A i \in DOMAIN calls :
        calls[i][1] \in DeleteCalls =>
            /\ calls[i][2] \in AliveFor(g, calls[i][1])
            /\ \A j \in DOMAIN calls : calls[j] = calls[i] => j = i

(***************************************************************************)
(* C34: across uploads (failed ones included), data mutations, delete_gpu  *)
(* calls and context / share-group teardown, every non-zero GL id recorded *)
(* in a share-group slot or a context VAO slot is an object created        *)
(* through the vtable and not deleted, and no GL object is passed to a     *)
(* vtable delete function more than once.                                  *)
(***************************************************************************)
C34_GlObjectLifecycle == [][SlotIdsAlive(gpu') /\ DeletesAlive(gpu, glast'.calls)]_vars

\* the slot part of C34 alone, as a state predicate
C34_SlotIdsAlive == SlotIdsAlive(gpu)

\* the source hashes of the live shaders of reg
LiveHashes(reg) ==
    {reg.pool.data[h.index].source_hash : h \in LiveHandles(reg)} \ {""}

(***************************************************************************)
(* C35: across tc_shader_from_sources (with and without uuid),             *)
(* tc_shader_set_sources and tc_shader_destroy, for every live shader with *)
(* a non-empty source hash tc_shader_find_by_hash of that hash returns a   *)
(* live shader whose stored hash equals it.                                *)
(***************************************************************************)
C35_HashFindsLiveShader ==
    \A hash \in LiveHashes(shader) :
        LET h == tc_shader_find_by_hash(shader, hash)
        IN  /\ tc_shader_is_valid(shader, h)
            /\ shader.pool.data[h.index].source_hash = hash

\* no two live shaders hold the same source hash
DistinctHashes(reg) ==
    \A h1, h2 \in LiveHandles(reg) :
        (/\ h1 # h2
         /\ reg.pool.data[h1.index].source_hash # "") =>
            reg.pool.data[h1.index].source_hash # reg.pool.data[h2.index].source_hash

\* C35 holds for as long as no two live shaders share their sources
C35_WhileHashesDistinct == [][(DistinctHashes(shader) /\ DistinctHashes(shader') /\ C35_HashFindsLiveShader) => C35_HashFindsLiveShader']_vars

\* two live shaders hold the same sources, made by tc_shader_from_sources
\* with a uuid
C35_SharedHash ==
    /\ rlast.op = "from_sources"
    /\ rlast.uuid # ""
    /\ ~DistinctHashes(shader)

\* the default context pointer can be used: NULL, or a context that is not freed
DefaultOk ==
    \/ gpu.g_default_gpu_context = NULL
    \/ gpu.g_default_gpu_context \in DOMAIN gpu.contexts

(***************************************************************************)
(* C36: after tc_gpu_context_free(ctx) no dangling context pointer         *)
(* remains: the current context of the thread is not a freed context, and  *)
(* the default context that tc_ensure_default_gpu_context installs is not  *)
(* a freed one.                                                            *)
(***************************************************************************)
C36_NoDanglingContext == CurrentOk /\ DefaultOk

\* the two pointers stay usable across every operation that frees no context
C36_DanglingOnlyByFree == [][(CurrentOk /\ DefaultOk /\ DOMAIN gpu.contexts \subseteq DOMAIN gpu'.contexts) => (CurrentOk' /\ DefaultOk')]_vars

\* the current context of the thread is the default context, which is freed
C36_FreedDefaultInstalled ==
    /\ gpu.g_current_gpu_context # NULL
    /\ gpu.g_current_gpu_context = gpu.g_default_gpu_context
    /\ ~CurrentOk

(***************************************************************************)
(* SpecShut: the mesh registry shut down and initialised again while       *)
(* TcMesh wrappers made before the shutdown are still held. issued holds   *)
(* the wrappers as [h, epoch], epoch counting the shutdowns before the     *)
(* wrapper's handle was issued; plast holds the present epoch.             *)
(***************************************************************************)
ShutMaxEpoch == 2       \* shutdowns of the registry
ShutQuota == 2          \* meshes alive at most in SpecShut

\* tc_pool_free: the arrays are freed and the pool is zeroed
tc_pool_free(p) ==
    [zero |-> p.zero, data |-> <<>>, capacity |-> 0, generations |-> <<>>, states |-> <<>>, free_list |-> <<>>, count |-> 0]

tc_mesh_shutdown(reg) ==
    IF ~reg.initialized THEN reg
    ELSE [reg EXCEPT !.pool = tc_pool_free(reg.pool),
                     !.uuid_to_index = tc_resource_map_new,
                     !.next_uuid = 1,
                     !.initialized = FALSE]

ShutInit ==
    /\ pool = tc_pool_init(0, 0)
    /\ issued = {}
    /\ freed = {}
    /\ plast = [op |-> "init", h |-> TC_HANDLE_INVALID, epoch |-> 0]
    /\ mesh = Uninitialized(ZeroMesh)
    /\ texture = Uninitialized(ZeroTexture)
    /\ shader = ShaderUninitialized
    /\ material = Uninitialized(ZeroMaterial)
    /\ focus = "mesh"
    /\ quota = ShutQuota
    /\ rlast = NoOp
    /\ GpuIdle

\* TcMesh(tc_mesh_create(uuid)): a wrapper around a new mesh
ShutCreate ==
    /\ \E uuid \in Uuids :
          /\ CanCreate(mesh, uuid)
          /\ \E r \in {tc_mesh_create(mesh, uuid)} :
                /\ mesh' = r.reg
                /\ issued' = IF tc_handle_is_invalid(r.h) THEN issued
                             ELSE issued \cup {[h |-> r.h, epoch |-> plast.epoch]}
                /\ plast' = [op |-> "create", h |-> r.h, epoch |-> plast.epoch]
    /\ UNCHANGED <<pool, freed, texture, shader, material, focus, quota, rlast, gpuVars>>

\* TcMesh's copy constructor: add_ref of what the handle resolves to
ShutWrapperCopy ==
    /\ \E w \in issued :
          LET ptr == tc_mesh_get(mesh, w.h)
          IN  /\ ptr # NULL => mesh.pool.data[ptr].ref_count < MaxRef
              /\ mesh' = tc_mesh_add_ref(mesh, ptr)
              /\ plast' = [op |-> "copy", h |-> w.h, epoch |-> plast.epoch]
    /\ UNCHANGED <<pool, issued, freed, texture, shader, material, focus, quota, rlast, gpuVars>>

\* TcMesh::~TcMesh of a copy: release of what the handle resolves to
ShutWrapperDrop ==
    /\ \E w \in issued :
          \E r \in {tc_mesh_release(mesh, tc_mesh_get(mesh, w.h))} :
              /\ MayFree(mesh, w.h)
              /\ mesh' = r.reg
              /\ plast' = [op |-> "drop", h |-> w.h, epoch |-> plast.epoch]
    /\ UNCHANGED <<pool, issued, freed, texture, shader, material, focus, quota, rlast, gpuVars>>

ShutDestroy ==
    /\ \E h \in LiveHandles(mesh) :
          \E r \in {tc_mesh_destroy(mesh, h)} :
              /\ MayFree(mesh, h)
              /\ mesh' = r.reg
              /\ plast' = [op |-> "destroy", h |-> h, epoch |-> plast.epoch]
    /\ UNCHANGED <<pool, issued, freed, texture, shader, material, focus, quota, rlast, gpuVars>>

ShutShutdown ==
    /\ mesh.initialized
    /\ plast.epoch < ShutMaxEpoch
    /\ mesh' = tc_mesh_shutdown(mesh)
    /\ plast' = [op |-> "shutdown", h |-> TC_HANDLE_INVALID, epoch |-> plast.epoch + 1]
    /\ UNCHANGED <<pool, issued, freed, texture, shader, material, focus, quota, rlast, gpuVars>>

ShutNext == ShutCreate \/ ShutWrapperCopy \/ ShutWrapperDrop \/ ShutDestroy \/ ShutShutdown

SpecShut == ShutInit /\ [][ShutNext]_vars

\* the wrappers whose handle was issued before the last shutdown
Outlived == {w \in issued : w.epoch < plast.epoch}

(***************************************************************************)
(* C37: a handle issued before the registry's shutdown never resolves to a *)
(* resource created after the registry is initialised again: tc_mesh_get   *)
(* gives NULL and tc_mesh_is_valid false for it, so a wrapper that         *)
(* outlives the shutdown never add_refs or releases an unrelated mesh.     *)
(***************************************************************************)
C37_OldHandleNeverResolves ==
    \A w \in Outlived :
        /\ tc_mesh_get(mesh, w.h) = NULL
        /\ ~tc_mesh_is_valid(mesh, w.h)

\* a wrapper that outlived the shutdown released the mesh created after it
C37_ReleasedUnrelated ==
    /\ plast.op = "drop"
    /\ \E w \in Outlived : w.h = plast.h
    /\ plast.epoch = 1
    /\ mesh.initialized
    /\ mesh.pool.count = 0

(***************************************************************************)
(* SpecRace: threads with no current context calling                       *)
(* tc_ensure_default_gpu_context, their steps interleaved. The statics     *)
(* g_default_gpu_context and g_registry are plain (unlocked) globals, the  *)
(* current context is thread-local: uploaded holds, per thread, the        *)
(* position in the call (pc), its g_current_gpu_context (current) and the  *)
(* share group its tc_gpu_context_new obtained (group). glast.overlapped   *)
(* says that some call began while another thread was inside a call.       *)
(***************************************************************************)
RaceThreads == 2        \* threads calling tc_ensure_default_gpu_context

Threads == 1..RaceThreads

Idle == [pc |-> "idle", current |-> NULL, group |-> NULL]

\* tc_ensure_default_gpu_context with the test of g_default_gpu_context left out
ensure_default_enter_NoDefaultTest(g, current) ==
    IF current # NULL THEN "done"
    ELSE "find"

\* the two tests of tc_ensure_default_gpu_context: where the call goes next
ensure_default_enter(g, current) ==
    IF current # NULL THEN "done"
    ELSE IF g.g_default_gpu_context = NULL THEN "find"
    ELSE "set"

\* the search loop of tc_gpu_share_group_get_or_create
group_find(g, key) ==
    LET found == {i \in 1..Len(g.g_registry) : g.groups[g.g_registry[i]].key = key}
    IN  IF found # {}
        THEN LET i == CHOOSE i \in found : \A j \in found : i <= j
                 group == g.g_registry[i]
             IN  [gpu |-> [g EXCEPT !.groups[group].refcount = @ + 1], ret |-> group]
        ELSE [gpu |-> g, ret |-> NULL]

\* the rest of tc_gpu_share_group_get_or_create, run when the search found nothing
group_create(g, key, addr) ==
    IF Len(g.g_registry) >= TC_MAX_SHARE_GROUPS THEN [gpu |-> g, ret |-> NULL]
    ELSE [gpu |-> [g EXCEPT !.groups = Put(@, addr, NewGroup(key)),
                            !.g_registry = Append(@, addr)],
          ret |-> addr]

\* tc_gpu_context_new once the share group is there, and the store of its
\* result in g_default_gpu_context
default_store(g, group, caddr) ==
    [g EXCEPT !.contexts = Put(@, caddr, [key |-> 0, share_group |-> group,
                                          mesh_vaos |-> <<>>, mesh_vao_capacity |-> 0]),
              !.g_default_gpu_context = caddr]

RaceInit ==
    /\ PoolIdle
    /\ RegIdle
    /\ gpu = GpuStart
    /\ uploaded = [t \in Threads |-> Idle]
    /\ glast = [op |-> "init", overlapped |-> FALSE]

Inside(t) == uploaded[t].pc \notin {"idle", "done"}

RaceEnter ==
    /\ \E t \in Threads :
          /\ uploaded[t].pc = "idle"
          /\ \E next \in {ensure_default_enter(gpu, uploaded[t].current)} :
                uploaded' = [uploaded EXCEPT ![t].pc = next]
          /\ glast' = [op |-> "enter",
                       overlapped |-> glast.overlapped \/ \E u \in Threads \ {t} : Inside(u)]
    /\ UNCHANGED <<poolVars, regVars, gpu>>

RaceFindGroup ==
    /\ \E t \in Threads :
          /\ uploaded[t].pc = "find"
          /\ \E r \in {group_find(gpu, 0)} :
                /\ gpu' = r.gpu
                /\ uploaded' = [uploaded EXCEPT ![t].group = r.ret,
                                                ![t].pc = IF r.ret = NULL THEN "group"
                                                          ELSE "context"]
          /\ glast' = [glast EXCEPT !.op = "find"]
    /\ UNCHANGED <<poolVars, regVars>>

RaceCreateGroup ==
    /\ \E t \in Threads :
          /\ uploaded[t].pc = "group"
          /\ \E r \in {group_create(gpu, 0, Calloc(DOMAIN gpu.groups, MaxGroups))} :
                /\ r.ret # NULL
                /\ gpu' = r.gpu
                /\ uploaded' = [uploaded EXCEPT ![t].group = r.ret, ![t].pc = "context"]
          /\ glast' = [glast EXCEPT !.op = "group"]
    /\ UNCHANGED <<poolVars, regVars>>

RaceStoreDefault ==
    /\ \E t \in Threads :
          /\ uploaded[t].pc = "context"
          /\ \E caddr \in {Calloc(DOMAIN gpu.contexts, MaxCtx)} :
                /\ caddr # NULL
                /\ gpu' = default_store(gpu, uploaded[t].group, caddr)
          /\ uploaded' = [uploaded EXCEPT ![t].pc = "set"]
          /\ glast' = [glast EXCEPT !.op = "context"]
    /\ UNCHANGED <<poolVars, regVars>>

\* tc_gpu_set_context(g_default_gpu_context)
RaceSetCurrent ==
    /\ \E t \in Threads :
          /\ uploaded[t].pc = "set"
          /\ uploaded' = [uploaded EXCEPT ![t].current = gpu.g_default_gpu_context,
                                          ![t].pc = "done"]
          /\ glast' = [glast EXCEPT !.op = "set"]
    /\ UNCHANGED <<poolVars, regVars, gpu>>

\* tc_gpu_set_context(NULL) by a thread that will call again
RaceReset ==
    /\ \E t \in Threads :
          /\ uploaded[t].pc = "done"
          /\ uploaded' = [uploaded EXCEPT ![t] = Idle]
          /\ glast' = [glast EXCEPT !.op = "reset"]
    /\ UNCHANGED <<poolVars, regVars, gpu>>

RaceNext ==
    \/ RaceEnter \/ RaceFindGroup \/ RaceCreateGroup \/ RaceStoreDefault
    \/ RaceSetCurrent \/ RaceReset

SpecRace == RaceInit /\ [][RaceNext]_vars

AllDone == \A t \in Threads : uploaded[t].pc = "done"

\* one default context with one share group, nothing else allocated, and
\* every thread's current context is that default context
OneDefault ==
    /\ Cardinality(DOMAIN gpu.contexts) = 1
    /\ Cardinality(DOMAIN gpu.groups) = 1
    /\ gpu.g_default_gpu_context \in DOMAIN gpu.contexts
    /\ gpu.contexts[gpu.g_default_gpu_context].share_group \in DOMAIN gpu.groups
    /\ gpu.groups[gpu.contexts[gpu.g_default_gpu_context].share_group].refcount = 1
    /\ \A t \in Threads : uploaded[t].current = gpu.g_default_gpu_context

(***************************************************************************)
(* C38: when tc_ensure_default_gpu_context is called concurrently from two *)
(* threads that have no current context, exactly one default context and   *)
(* one share group for it are created, none is leaked, and both threads    *)
(* end with that same default context current.                             *)
(***************************************************************************)
C38_ConcurrentEnsureDefault == AllDone => OneDefault

\* C38 for calls that the callers serialise: no call begins while another
\* thread is inside tc_ensure_default_gpu_context
C38_SerializedEnsureDefault == (AllDone /\ ~glast.overlapped) => OneDefault

\* both threads have made their call, one after the other
C38_Witness ==
    /\ AllDone
    /\ ~glast.overlapped
    /\ \A t \in Threads : uploaded[t].current # NULL

\* two default contexts were created by overlapping calls, and one is lost
C38_Leaked ==
    /\ AllDone
    /\ glast.overlapped
    /\ \E ctx \in DOMAIN gpu.contexts :
          /\ ctx # gpu.g_default_gpu_context
          /\ \A t \in Threads : uploaded[t].current # ctx

(***************************************************************************)
(* C39: tc_material_copy yields a copy whose phases equal the source's     *)
(* also when creating the destination material makes the material pool     *)
(* grow and its storage move: the source is not read through the pointer   *)
(* taken before the growth.                                                *)
(***************************************************************************)
C39_CopyAcrossGrowth ==
    (rlast.op = "copy" /\ ~tc_handle_is_invalid(rlast.h) /\ rlast.grew) =>
        /\ tc_material_is_valid(material, rlast.h)
        /\ material.pool.data[rlast.h.index].phases = rlast.item[1].phases
        /\ material.pool.data[rlast.h.index].texture_handles = rlast.item[1].texture_handles

\* a copy whose create grew the pool received phases the source does not have
C39_StalePhasesCopied ==
    /\ rlast.op = "copy" /\ ~tc_handle_is_invalid(rlast.h) /\ rlast.grew
    /\ Len(rlast.item[1].phases) = 0
    /\ Len(material.pool.data[rlast.h.index].phases) = 1

\* the positions of the free list that hold index i
FreePositions(p, i) == {k \in 1..Len(p.free_list) : p.free_list[k] = i}

(***************************************************************************)
(* C40: at all times in a pool, under any sequence of init, alloc, free,   *)
(* grow and clear, no occupied slot index appears in the free list, the    *)
(* free list holds each free index exactly once, and count + free_count =  *)
(* capacity; hence two valid handles never refer to the same slot.         *)
(***************************************************************************)
C40_FreeListConsistent ==
    /\ \A i \in 0..(pool.capacity - 1) :
          Cardinality(FreePositions(pool, i)) =
              IF pool.states[i] = TC_SLOT_OCCUPIED THEN 0 ELSE 1
    /\ \A k \in 1..Len(pool.free_list) : pool.free_list[k] \in 0..(pool.capacity - 1)
    /\ pool.count + Len(pool.free_list) = pool.capacity
    /\ pool.count = Cardinality({i \in 0..(pool.capacity - 1) : pool.states[i] = TC_SLOT_OCCUPIED})
    /\ \A h1, h2 \in issued :
          (/\ tc_pool_is_valid(pool, h1) /\ tc_pool_is_valid(pool, h2)
           /\ h1.index = h2.index) => h1 = h2

\* a slot handed out for at least the third time in a pool that has grown,
\* with free and occupied slots side by side
C40_Witness ==
    /\ plast.op = "alloc"
    /\ pool.capacity > InitCapacity
    /\ \E h \in freed : h.index = plast.h.index /\ h.generation + 2 <= plast.h.generation
    /\ pool.count >= 2
    /\ Len(pool.free_list) >= 1

=============================================================================
